---- MODULE Spec2Model ----
(***************************************************************************)
(* A model of the context analyzer of claude-code-context-command:         *)
(* scripts/context-analyzer.js (the full ContextAnalyzer class and, in the *)
(* same file from line 860 on, the simplified analyzer) and                *)
(* scripts/context-cmd.js (the command wrapper), with the validators of    *)
(* lib/security.js.                                                        *)
(*                                                                         *)
(* Paths.  Every path the code walks lies on one chain of directories from *)
(* the filesystem root down to the start directory, so a directory is      *)
(* modelled by its depth on that chain: 0 is the root, path.dirname(d) is  *)
(* d - 1.  A project root is the depth of the directory that holds the     *)
(* .claude entry; a .claude path is named by the depth of its parent.      *)
(*                                                                         *)
(* JavaScript values.  null is modelled by an empty sequence (None) for an *)
(* object reference, by NoTime for cache.timestamp and by NoPath for a     *)
(* path.  A number is a natural number or NaN.                             *)
(*                                                                         *)
(* Specifications.  Spec: analyze() calls with every read free to complete,*)
(* fail or outlast a timer.  SpecCalls: calls with the clock advancing     *)
(* between them by about the snapshot TTL.  SpecSwitches: calls at one     *)
(* instant on one project or another.  SpecLocate, SpecPrune, SpecMcp and  *)
(* SpecSettings apply one function to an input drawn in the initial state: *)
(* the directory walks, cleanupCache, the loops over the enabled servers,  *)
(* and analyzeMcpTools on what its two reads return.  SpecSimple applies   *)
(* analyze() of the simplified analyzer to one project, SpecRecommend      *)
(* generateOptimizationRecommendations to one results object.  SpecFresh:  *)
(* the full analyzer in a fresh process on a project whose files are fixed *)
(* in the initial state.  SpecCmd: execute() calls on one ContextCommand   *)
(* object with the clock advancing by about its cache timeout.  SpecMode,  *)
(* SpecPaths and SpecLog apply the validators and the event logger of      *)
(* lib/security.js to one input.  SpecBatches: one analysis with its       *)
(* timers on an agents directory of two batches; SpecBatchesFair adds the  *)
(* fairness of the event loop, for termination.  SpecCap: the walk of the  *)
(* simplified analyzer from about maxIterations levels below the root.     *)
(***************************************************************************)
EXTENDS Integers, Sequences, FiniteSets, TLC

VARIABLES
    now,        \* Date.now(), in ms
    ticks,      \* how often the clock has advanced
    runs,       \* how many analyze() calls were made
    cache,      \* the module-level cache object
    origin,     \* history: the project whose analysis stored each snapshot slot
    an,         \* the ContextAnalyzer object: claudeDir, projectRoot, results
    pc,         \* where analyze() of that object stands
    startTime,  \* when the global timeout of the running analyze() was armed
    mcp,        \* analyzeMcpTools: its position and locals
    ag,         \* analyzeCustomAgents: its position and locals
    mem,        \* analyzeMemoryFiles: its position and locals
    input,      \* the argument of the function a function-level specification applies
    output,     \* its result
    cmd         \* the ContextCommand object and the execute() call in progress

vars == <<now, ticks, runs, cache, origin, an, pc, startTime, mcp, ag, mem, input, output, cmd>>

(***************************************************************************)
(* Bounds of the model.                                                    *)
(***************************************************************************)
MaxDepth == 4        \* deepest directory a walk starts from
MaxRuns == 2         \* analyze() calls in one process
MaxTicks == 2        \* clock advances in one behaviour
MaxCalls == 2        \* analyze() calls in one process, no timer firing
MaxGaps == 1         \* clock advances between those calls
MaxSwitches == 3     \* analyze() calls in one process at one instant
MaxServers == 2      \* names in enabledMcpjsonServers
MaxEntries == 102    \* file-cache entries handed to cleanupCache
MaxFresh == 1        \* analyze() calls on the project of a fresh process
MaxExecutes == 3     \* execute() calls on one ContextCommand object
MaxWaits == 2        \* clock advances between and during those calls
MaxAgentFiles == 11  \* entries of an agents directory the simplified analyzer lists

(***************************************************************************)
(* JavaScript helpers.                                                     *)
(***************************************************************************)
None == <<>>
Some(v) == <<v>>

\* NaN: the result of adding undefined to a number. All other numbers of the
\* program are >= 0, so -1 is free to stand for it.
NaN == -1
NoTime == 0
NoPath == 0

JsAdd(a, b) == IF a = NaN \/ b = NaN THEN NaN ELSE a + b
\* a variant that compares with >=
JsGe(a, b) == a # NaN /\ b # NaN /\ a >= b
\* a > b on numbers
JsGt(a, b) == a # NaN /\ b # NaN /\ a > b
\* truthiness of a number
Truthy(n) == n # 0 /\ n # NaN
IsNonNegInt(n) == n \in Nat

\* obj[k] = v on a JavaScript object modelled as a function
SetKey(obj, k, v) == [x \in (DOMAIN obj) \cup {k} |-> IF x = k THEN v ELSE obj[x]]
EmptyObj == [x \in {} |-> 0]

\* estimateTokens: Math.ceil(text.length / 4), on the length of the text
estimateTokens(len) == (len + 3) \div 4

(***************************************************************************)
(* Directory discovery.                                                    *)
(***************************************************************************)
\* path.parse(currentPath).root
Root == 0
\* what <dir>/.claude is: absent, a regular file or a directory
MarkerKinds == {"none", "file", "dir"}

\* findClaudeDirectory of the full analyzer: fs.stat must resolve and
\* stat.isDirectory() must hold; the result names the .claude path by the depth
\* of its parent, NoPath is null.
RECURSIVE findClaudeDirectory(_, _)
findClaudeDirectory(currentPath, markers) ==
    IF currentPath = Root THEN NoPath
    ELSE IF markers[currentPath] = "dir" THEN currentPath
    ELSE findClaudeDirectory(currentPath - 1, markers)

\* findClaudeDirectory of the command wrapper: the same walk, returning
\* {claudeDir, projectRoot} or null.
RECURSIVE findClaudeDirectoryCmd(_, _)
findClaudeDirectoryCmd(currentPath, markers) ==
    IF currentPath = Root THEN None
    ELSE IF markers[currentPath] = "dir"
         THEN Some([claudeDir |-> currentPath, projectRoot |-> currentPath])
    ELSE findClaudeDirectoryCmd(currentPath - 1, markers)

\* const maxIterations = 50 of the simplified analyzer
maxIterations == 50

\* The loop of the simplified analyzer's findClaudeDirectory: fs.access only
\* asks whether the entry exists. claudePath = path.join(currentPath, '.claude')
\* always starts with currentPath, so the path_traversal branch is never taken.
\* logged: whether max_iterations_exceeded_simple was logged; iterations: the
\* counter when the function returns, the number of upward hops made.
RECURSIVE findClaudeDirectorySimpleLoop(_, _, _)
findClaudeDirectorySimpleLoop(currentPath, iterations, markers) ==
    IF currentPath # Root /\ iterations < maxIterations
    THEN IF markers[currentPath] # "none"
         THEN [claudeDir |-> currentPath, logged |-> FALSE, iterations |-> iterations]
         ELSE findClaudeDirectorySimpleLoop(currentPath - 1, iterations + 1, markers)
    ELSE [claudeDir |-> NoPath, logged |-> iterations >= maxIterations,
          iterations |-> iterations]

findClaudeDirectorySimple(cwd, markers) ==
    findClaudeDirectorySimpleLoop(cwd, 0, markers)


(***************************************************************************)
(* The module-level cache.                                                 *)
(***************************************************************************)
\* cache.ttl and cache.fileCacheTtl
ttl == 300000
fileCacheTtl == 600000
\* cleanupCache: the size above which the file cache is cut, and what is kept
fileCacheCeiling == 100
fileCacheKeep == 50

\* const cache = {...}: fileCache is a Map, modelled by the sequence of its
\* entries [path, tokens, timestamp] in insertion order.
EmptyCache ==
    [mcpTools |-> None, customAgents |-> None, memoryFiles |-> None,
     timestamp |-> NoTime, projectPath |-> NoPath, fileCache |-> <<>>]

\* a variant that still accepts a snapshot that is exactly ttl old
isCacheValidInclusive(c, t, projectPath) ==
    /\ c.timestamp # NoTime
    /\ c.projectPath = projectPath
    /\ (t - c.timestamp) <= ttl

isCacheValid(c, t, projectPath) ==
    /\ c.timestamp # NoTime
    /\ c.projectPath = projectPath
    /\ (t - c.timestamp) < ttl

\* cache.fileCache.get(filePath): the index of the entry, 0 when there is none
FileCacheIndex(c, filePath) ==
    IF \E i \in 1..Len(c.fileCache) : c.fileCache[i].path = filePath
    THEN CHOOSE i \in 1..Len(c.fileCache) : c.fileCache[i].path = filePath
    ELSE 0

isFileCacheValid(c, t, filePath) ==
    /\ FileCacheIndex(c, filePath) # 0
    /\ (t - c.fileCache[FileCacheIndex(c, filePath)].timestamp) < fileCacheTtl

\* cache.fileCache.set(filePath, {tokens, timestamp}): an existing key keeps its
\* place in the Map, a new key is appended.
FileCacheSet(c, filePath, tokens, t) ==
    LET e == [path |-> filePath, tokens |-> tokens, timestamp |-> t]
        i == FileCacheIndex(c, filePath)
    IN  [c EXCEPT !.fileCache = IF i = 0 THEN Append(@, e) ELSE [@ EXCEPT ![i] = e]]

\* a variant that sorts with the comparator reversed: descending and stable
SortDescending(entries) ==
    LET n == Len(entries)
        rank == [i \in 1..n |->
                    Cardinality({j \in 1..n :
                        \/ entries[j].timestamp > entries[i].timestamp
                        \/ entries[j].timestamp = entries[i].timestamp /\ j <= i})]
        at == [r \in 1..n |-> CHOOSE i \in 1..n : rank[i] = r]
    IN  [r \in 1..n |-> entries[at[r]]]

\* entries.sort((a, b) => a[1].timestamp - b[1].timestamp): ascending and stable
SortByTimestamp(entries) ==
    LET n == Len(entries)
        rank == [i \in 1..n |->
                    Cardinality({j \in 1..n :
                        \/ entries[j].timestamp < entries[i].timestamp
                        \/ entries[j].timestamp = entries[i].timestamp /\ j <= i})]
        at == [r \in 1..n |-> CHOOSE i \in 1..n : rank[i] = r]
    IN  [r \in 1..n |-> entries[at[r]]]

\* entries.slice(-k)
SliceLast(entries, k) ==
    IF Len(entries) <= k THEN entries
    ELSE SubSeq(entries, Len(entries) - k + 1, Len(entries))

\* the loop that deletes the expired file-cache entries
DeleteExpired(fileCache, t) ==
    SelectSeq(fileCache, LAMBDA e : ~((t - e.timestamp) > fileCacheTtl))

\* the cut of a file cache that has grown too large
CutFileCache(fileCache) ==
    IF Len(fileCache) > fileCacheCeiling
    THEN SliceLast(SortByTimestamp(fileCache), fileCacheKeep)
    ELSE fileCache

\* whether cleanupCache clears the snapshot
SnapshotExpired(c, t) == c.timestamp # NoTime /\ (t - c.timestamp) > ttl

\* a variant that clears an expired snapshot and leaves the file cache alone
cleanupCacheSnapshotOnly(c, t) ==
    LET x == SnapshotExpired(c, t)
    IN  [mcpTools     |-> IF x THEN None ELSE c.mcpTools,
         customAgents |-> IF x THEN None ELSE c.customAgents,
         memoryFiles  |-> IF x THEN None ELSE c.memoryFiles,
         timestamp    |-> IF x THEN NoTime ELSE c.timestamp,
         projectPath  |-> IF x THEN NoPath ELSE c.projectPath,
         fileCache    |-> c.fileCache]

cleanupCache(c, t) ==
    LET x == SnapshotExpired(c, t)
    IN  [mcpTools     |-> IF x THEN None ELSE c.mcpTools,
         customAgents |-> IF x THEN None ELSE c.customAgents,
         memoryFiles  |-> IF x THEN None ELSE c.memoryFiles,
         timestamp    |-> IF x THEN NoTime ELSE c.timestamp,
         projectPath  |-> IF x THEN NoPath ELSE c.projectPath,
         fileCache    |-> CutFileCache(DeleteExpired(c.fileCache, t))]


(***************************************************************************)
(* The static server tables and the loops over enabledMcpjsonServers.      *)
(***************************************************************************)
\* const mcpToolsData = {...} of the full analyzer
mcpToolsData ==
    ("fetch" :> [total |-> 643, tools |-> <<
            [name |-> "mcp__fetch__fetch", tokens |-> 643]>>]) @@
    ("sequential-thinking" :> [total |-> 1300, tools |-> <<
            [name |-> "mcp__sequential-thinking__sequentialthinking", tokens |-> 1300]>>]) @@
    ("byterover-mcp" :> [total |-> 968, tools |-> <<
            [name |-> "mcp__byterover-mcp__byterover-retrieve-knowledge", tokens |-> 456],
            [name |-> "mcp__byterover-mcp__byterover-store-knowledge", tokens |-> 512]>>]) @@
    ("puppeteer" :> [total |-> 1815, tools |-> <<
            [name |-> "mcp__puppeteer__puppeteer_navigate", tokens |-> 432],
            [name |-> "mcp__puppeteer__puppeteer_screenshot", tokens |-> 398],
            [name |-> "mcp__puppeteer__puppeteer_click", tokens |-> 287],
            [name |-> "mcp__puppeteer__puppeteer_fill", tokens |-> 298],
            [name |-> "mcp__puppeteer__puppeteer_select", tokens |-> 210],
            [name |-> "mcp__puppeteer__puppeteer_hover", tokens |-> 190]>>]) @@
    ("mcp-playwright" :> [total |-> 15234, tools |-> <<
            [name |-> "mcp__mcp-playwright__start_codegen_session", tokens |-> 567],
            [name |-> "mcp__mcp-playwright__playwright_navigate", tokens |-> 456],
            [name |-> "mcp__mcp-playwright__playwright_screenshot", tokens |-> 623],
            [name |-> "mcp__mcp-playwright__playwright_click", tokens |-> 298],
            [name |-> "mcp__mcp-playwright__playwright_fill", tokens |-> 289],
            [name |-> "mcp__mcp-playwright__playwright_evaluate", tokens |-> 334],
            [name |-> "mcp__mcp-playwright__playwright_console_logs", tokens |-> 445],
            [name |-> "mcp__mcp-playwright__playwright_get_visible_text", tokens |-> 234],
            [name |-> "mcp__mcp-playwright__playwright_get_visible_html", tokens |-> 523],
            [name |-> "mcp__mcp-playwright__playwright_upload_file", tokens |-> 387],
            [name |-> "mcp__mcp-playwright__playwright_drag", tokens |-> 298],
            [name |-> "mcp__mcp-playwright__playwright_press_key", tokens |-> 267],
            [name |-> "mcp__mcp-playwright__playwright_save_as_pdf", tokens |-> 445],
            [name |-> "mcp__mcp-playwright__playwright_get", tokens |-> 198],
            [name |-> "mcp__mcp-playwright__playwright_post", tokens |-> 234],
            [name |-> "mcp__mcp-playwright__playwright_put", tokens |-> 187],
            [name |-> "mcp__mcp-playwright__playwright_delete", tokens |-> 156],
            [name |-> "mcp__mcp-playwright__playwright_expect_response", tokens |-> 387],
            [name |-> "mcp__mcp-playwright__playwright_assert_response", tokens |-> 334],
            [name |-> "mcp__mcp-playwright__playwright_close", tokens |-> 123]>>]) @@
    ("everything" :> [total |-> 2167, tools |-> <<
            [name |-> "mcp__everything__echo", tokens |-> 198],
            [name |-> "mcp__everything__add", tokens |-> 156],
            [name |-> "mcp__everything__longRunningOperation", tokens |-> 387],
            [name |-> "mcp__everything__printEnv", tokens |-> 167],
            [name |-> "mcp__everything__sampleLLM", tokens |-> 298],
            [name |-> "mcp__everything__getTinyImage", tokens |-> 134],
            [name |-> "mcp__everything__annotatedMessage", tokens |-> 445],
            [name |-> "mcp__everything__getResourceReference", tokens |-> 382]>>]) @@
    ("github-official" :> [total |-> 12456, tools |-> <<
            [name |-> "mcp__github-official__create_or_update_file", tokens |-> 567],
            [name |-> "mcp__github-official__search_repositories", tokens |-> 434],
            [name |-> "mcp__github-official__create_repository", tokens |-> 398],
            [name |-> "mcp__github-official__get_file_contents", tokens |-> 445],
            [name |-> "mcp__github-official__push_files", tokens |-> 512],
            [name |-> "mcp__github-official__create_issue", tokens |-> 389],
            [name |-> "mcp__github-official__create_pull_request", tokens |-> 623],
            [name |-> "mcp__github-official__fork_repository", tokens |-> 334],
            [name |-> "mcp__github-official__create_branch", tokens |-> 387],
            [name |-> "mcp__github-official__list_commits", tokens |-> 298],
            [name |-> "mcp__github-official__list_issues", tokens |-> 456],
            [name |-> "mcp__github-official__update_issue", tokens |-> 423],
            [name |-> "mcp__github-official__add_issue_comment", tokens |-> 287],
            [name |-> "mcp__github-official__search_code", tokens |-> 345],
            [name |-> "mcp__github-official__search_issues", tokens |-> 367],
            [name |-> "mcp__github-official__search_users", tokens |-> 298],
            [name |-> "mcp__github-official__get_issue", tokens |-> 234],
            [name |-> "mcp__github-official__get_pull_request", tokens |-> 267],
            [name |-> "mcp__github-official__list_pull_requests", tokens |-> 489],
            [name |-> "mcp__github-official__create_pull_request_review", tokens |-> 678],
            [name |-> "mcp__github-official__merge_pull_request", tokens |-> 456],
            [name |-> "mcp__github-official__get_pull_request_files", tokens |-> 334],
            [name |-> "mcp__github-official__get_pull_request_status", tokens |-> 298],
            [name |-> "mcp__github-official__update_pull_request_branch", tokens |-> 387],
            [name |-> "mcp__github-official__get_pull_request_comments", tokens |-> 345],
            [name |-> "mcp__github-official__get_pull_request_reviews", tokens |-> 323]>>]) @@
    ("mcp-filesystem" :> [total |-> 4234, tools |-> <<
            [name |-> "mcp__mcp-filesystem__read_file", tokens |-> 456],
            [name |-> "mcp__mcp-filesystem__read_multiple_files", tokens |-> 523],
            [name |-> "mcp__mcp-filesystem__write_file", tokens |-> 398],
            [name |-> "mcp__mcp-filesystem__edit_file", tokens |-> 623],
            [name |-> "mcp__mcp-filesystem__create_directory", tokens |-> 367],
            [name |-> "mcp__mcp-filesystem__list_directory", tokens |-> 423],
            [name |-> "mcp__mcp-filesystem__list_directory_with_sizes", tokens |-> 489],
            [name |-> "mcp__mcp-filesystem__directory_tree", tokens |-> 445],
            [name |-> "mcp__mcp-filesystem__move_file", tokens |-> 298],
            [name |-> "mcp__mcp-filesystem__search_files", tokens |-> 387],
            [name |-> "mcp__mcp-filesystem__get_file_info", tokens |-> 334],
            [name |-> "mcp__mcp-filesystem__list_allowed_directories", tokens |-> 191]>>]) @@
    ("context7-mcp" :> [total |-> 1023, tools |-> <<
            [name |-> "mcp__context7-mcp__resolve-library-id", tokens |-> 567],
            [name |-> "mcp__context7-mcp__get-library-docs", tokens |-> 456]>>]) @@
    ("brave-search" :> [total |-> 823, tools |-> <<
            [name |-> "mcp__brave-search__brave_web_search", tokens |-> 434],
            [name |-> "mcp__brave-search__brave_local_search", tokens |-> 389]>>]) @@
    ("deep-code-reasoning" :> [total |-> 4267, tools |-> <<
            [name |-> "mcp__deep-code-reasoning__escalate_analysis", tokens |-> 678],
            [name |-> "mcp__deep-code-reasoning__trace_execution_path", tokens |-> 534],
            [name |-> "mcp__deep-code-reasoning__hypothesis_test", tokens |-> 456],
            [name |-> "mcp__deep-code-reasoning__cross_system_impact", tokens |-> 523],
            [name |-> "mcp__deep-code-reasoning__performance_bottleneck", tokens |-> 445],
            [name |-> "mcp__deep-code-reasoning__start_conversation", tokens |-> 389],
            [name |-> "mcp__deep-code-reasoning__continue_conversation", tokens |-> 334],
            [name |-> "mcp__deep-code-reasoning__finalize_conversation", tokens |-> 267],
            [name |-> "mcp__deep-code-reasoning__get_conversation_status", tokens |-> 234],
            [name |-> "mcp__deep-code-reasoning__run_hypothesis_tournament", tokens |-> 407]>>]) @@
    ("supabase" :> [total |-> 14567, tools |-> <<
            [name |-> "mcp__supabase__list_organizations", tokens |-> 298],
            [name |-> "mcp__supabase__get_organization", tokens |-> 267],
            [name |-> "mcp__supabase__list_projects", tokens |-> 234],
            [name |-> "mcp__supabase__get_project", tokens |-> 198],
            [name |-> "mcp__supabase__get_cost", tokens |-> 345],
            [name |-> "mcp__supabase__confirm_cost", tokens |-> 367],
            [name |-> "mcp__supabase__create_project", tokens |-> 567],
            [name |-> "mcp__supabase__pause_project", tokens |-> 189],
            [name |-> "mcp__supabase__restore_project", tokens |-> 198],
            [name |-> "mcp__supabase__create_branch", tokens |-> 434],
            [name |-> "mcp__supabase__list_branches", tokens |-> 334],
            [name |-> "mcp__supabase__delete_branch", tokens |-> 187],
            [name |-> "mcp__supabase__merge_branch", tokens |-> 198],
            [name |-> "mcp__supabase__reset_branch", tokens |-> 267],
            [name |-> "mcp__supabase__rebase_branch", tokens |-> 234],
            [name |-> "mcp__supabase__list_tables", tokens |-> 389],
            [name |-> "mcp__supabase__list_extensions", tokens |-> 267],
            [name |-> "mcp__supabase__list_migrations", tokens |-> 298],
            [name |-> "mcp__supabase__apply_migration", tokens |-> 456],
            [name |-> "mcp__supabase__execute_sql", tokens |-> 445],
            [name |-> "mcp__supabase__get_logs", tokens |-> 387],
            [name |-> "mcp__supabase__get_advisors", tokens |-> 423],
            [name |-> "mcp__supabase__get_project_url", tokens |-> 178],
            [name |-> "mcp__supabase__get_anon_key", tokens |-> 167],
            [name |-> "mcp__supabase__generate_typescript_types", tokens |-> 298],
            [name |-> "mcp__supabase__search_docs", tokens |-> 1234],
            [name |-> "mcp__supabase__list_edge_functions", tokens |-> 234],
            [name |-> "mcp__supabase__deploy_edge_function", tokens |-> 623]>>]) @@
    ("zen-mcp-server" :> [total |-> 20456, tools |-> <<
            [name |-> "mcp__zen__chat", tokens |-> 1234],
            [name |-> "mcp__zen__thinkdeep", tokens |-> 1456],
            [name |-> "mcp__zen__planner", tokens |-> 1123],
            [name |-> "mcp__zen__consensus", tokens |-> 1089],
            [name |-> "mcp__zen__codereview", tokens |-> 1345],
            [name |-> "mcp__zen__precommit", tokens |-> 1234],
            [name |-> "mcp__zen__debug", tokens |-> 1456],
            [name |-> "mcp__zen__secaudit", tokens |-> 1289],
            [name |-> "mcp__zen__docgen", tokens |-> 1123],
            [name |-> "mcp__zen__analyze", tokens |-> 1234],
            [name |-> "mcp__zen__refactor", tokens |-> 1089],
            [name |-> "mcp__zen__tracer", tokens |-> 1345],
            [name |-> "mcp__zen__testgen", tokens |-> 1234],
            [name |-> "mcp__zen__challenge", tokens |-> 389],
            [name |-> "mcp__zen__listmodels", tokens |-> 234],
            [name |-> "mcp__zen__version", tokens |-> 156]>>]) @@
    ("claude-flow_Docs" :> [total |-> 1234, tools |-> <<
            [name |-> "mcp__claude-flow_Docs__fetch_claude_flow_documentation", tokens |-> 298],
            [name |-> "mcp__claude-flow_Docs__search_claude_flow_documentation", tokens |-> 345],
            [name |-> "mcp__claude-flow_Docs__search_claude_flow_code", tokens |-> 367],
            [name |-> "mcp__claude-flow_Docs__fetch_generic_url_content", tokens |-> 224]>>]) @@
    ("perplexity-mcp" :> [total |-> 345, tools |-> <<
            [name |-> "mcp__perplexity-mcp__perplexity_search_web", tokens |-> 345]>>]) @@
    ("Prisma-Local" :> [total |-> 1123, tools |-> <<
            [name |-> "mcp__Prisma-Local__migrate-status", tokens |-> 367],
            [name |-> "mcp__Prisma-Local__migrate-dev", tokens |-> 423],
            [name |-> "mcp__Prisma-Local__migrate-reset", tokens |-> 333]>>]) @@
    ("firecrawl" :> [total |-> 6756, tools |-> <<
            [name |-> "mcp__firecrawl__firecrawl_scrape", tokens |-> 1534],
            [name |-> "mcp__firecrawl__firecrawl_map", tokens |-> 738],
            [name |-> "mcp__firecrawl__firecrawl_crawl", tokens |-> 1634],
            [name |-> "mcp__firecrawl__firecrawl_check_crawl_status", tokens |-> 507],
            [name |-> "mcp__firecrawl__firecrawl_search", tokens |-> 1298],
            [name |-> "mcp__firecrawl__firecrawl_extract", tokens |-> 1045]>>]) @@
    ("BMAD-METHOD DOCS" :> [total |-> 1456, tools |-> <<
            [name |-> "mcp__BMAD-METHOD_Docs__fetch_BMAD_METHOD_documentation", tokens |-> 423],
            [name |-> "mcp__BMAD-METHOD_Docs__search_BMAD_METHOD_documentation", tokens |-> 456],
            [name |-> "mcp__BMAD-METHOD_Docs__search_BMAD_METHOD_code", tokens |-> 387],
            [name |-> "mcp__BMAD-METHOD_Docs__fetch_generic_url_content", tokens |-> 190]>>]) @@
    ("awesome-ui-component-library Docs" :> [total |-> 1234, tools |-> <<
            [name |-> "mcp__awesome-ui-component-library_Docs__fetch_awesome_docs", tokens |-> 334],
            [name |-> "mcp__awesome-ui-component-library_Docs__search_repo_docs", tokens |-> 387],
            [name |-> "mcp__awesome-ui-component-library_Docs__search_repo_code", tokens |-> 298],
            [name |-> "mcp__awesome-ui-component-library_Docs__fetch_generic_url_content", tokens |-> 215]>>])

\* const mcpServers = {...} of the simplified analyzer
mcpServers ==
    ("fetch" :> [total |-> 643, tools |-> <<
            [name |-> "mcp__fetch__fetch", tokens |-> 643]>>]) @@
    ("sequential-thinking" :> [total |-> 1300, tools |-> <<
            [name |-> "mcp__sequential-thinking__sequentialthinking", tokens |-> 1300]>>]) @@
    ("puppeteer" :> [total |-> 3415, tools |-> <<
            [name |-> "mcp__puppeteer__puppeteer_navigate", tokens |-> 490],
            [name |-> "mcp__puppeteer__puppeteer_screenshot", tokens |-> 506],
            [name |-> "mcp__puppeteer__puppeteer_click", tokens |-> 395],
            [name |-> "mcp__puppeteer__puppeteer_fill", tokens |-> 414],
            [name |-> "mcp__puppeteer__puppeteer_select", tokens |-> 419],
            [name |-> "mcp__puppeteer__puppeteer_hover", tokens |-> 396],
            [name |-> "mcp__puppeteer__puppeteer_evaluate", tokens |-> 393]>>]) @@
    ("mcp-playwright" :> [total |-> 12456, tools |-> <<
            [name |-> "mcp__mcp-playwright__start_codegen_session", tokens |-> 498],
            [name |-> "mcp__mcp-playwright__playwright_navigate", tokens |-> 557],
            [name |-> "mcp__mcp-playwright__playwright_screenshot", tokens |-> 573],
            [name |-> "mcp__mcp-playwright__playwright_click", tokens |-> 395],
            [name |-> "mcp__mcp-playwright__playwright_fill", tokens |-> 413],
            [name |-> "mcp__mcp-playwright__playwright_evaluate", tokens |-> 392],
            [name |-> "mcp__mcp-playwright__playwright_console_logs", tokens |-> 509],
            [name |-> "mcp__mcp-playwright__playwright_get_visible_text", tokens |-> 380],
            [name |-> "mcp__mcp-playwright__playwright_get_visible_html", tokens |-> 613],
            [name |-> "mcp__mcp-playwright__playwright_close", tokens |-> 374],
            [name |-> "mcp__mcp-playwright__playwright_get", tokens |-> 393],
            [name |-> "mcp__mcp-playwright__playwright_post", tokens |-> 470],
            [name |-> "mcp__mcp-playwright__playwright_put", tokens |-> 417],
            [name |-> "mcp__mcp-playwright__playwright_delete", tokens |-> 393],
            [name |-> "mcp__mcp-playwright__playwright_expect_response", tokens |-> 457],
            [name |-> "mcp__mcp-playwright__playwright_assert_response", tokens |-> 455],
            [name |-> "mcp__mcp-playwright__playwright_custom_user_agent", tokens |-> 405],
            [name |-> "mcp__mcp-playwright__playwright_go_back", tokens |-> 374],
            [name |-> "mcp__mcp-playwright__playwright_go_forward", tokens |-> 374],
            [name |-> "mcp__mcp-playwright__playwright_drag", tokens |-> 425],
            [name |-> "mcp__mcp-playwright__playwright_press_key", tokens |-> 433],
            [name |-> "mcp__mcp-playwright__playwright_save_as_pdf", tokens |-> 541],
            [name |-> "mcp__mcp-playwright__playwright_click_and_switch_tab", tokens |-> 405]>>]) @@
    ("everything" :> [total |-> 2167, tools |-> <<
            [name |-> "mcp__everything__echo", tokens |-> 198],
            [name |-> "mcp__everything__add", tokens |-> 156],
            [name |-> "mcp__everything__longRunningOperation", tokens |-> 387],
            [name |-> "mcp__everything__printEnv", tokens |-> 167],
            [name |-> "mcp__everything__sampleLLM", tokens |-> 298],
            [name |-> "mcp__everything__getTinyImage", tokens |-> 134],
            [name |-> "mcp__everything__annotatedMessage", tokens |-> 445],
            [name |-> "mcp__everything__getResourceReference", tokens |-> 382]>>]) @@
    ("github-official" :> [total |-> 12456, tools |-> <<
            [name |-> "mcp__github-official__create_or_update_file", tokens |-> 570],
            [name |-> "mcp__github-official__search_repositories", tokens |-> 474],
            [name |-> "mcp__github-official__create_repository", tokens |-> 477],
            [name |-> "mcp__github-official__get_file_contents", tokens |-> 492],
            [name |-> "mcp__github-official__push_files", tokens |-> 574],
            [name |-> "mcp__github-official__create_issue", tokens |-> 498],
            [name |-> "mcp__github-official__create_pull_request", tokens |-> 596],
            [name |-> "mcp__github-official__fork_repository", tokens |-> 471],
            [name |-> "mcp__github-official__create_branch", tokens |-> 497],
            [name |-> "mcp__github-official__list_commits", tokens |-> 458],
            [name |-> "mcp__github-official__list_issues", tokens |-> 541],
            [name |-> "mcp__github-official__update_issue", tokens |-> 531],
            [name |-> "mcp__github-official__add_issue_comment", tokens |-> 455],
            [name |-> "mcp__github-official__search_code", tokens |-> 469],
            [name |-> "mcp__github-official__search_issues", tokens |-> 533],
            [name |-> "mcp__github-official__search_users", tokens |-> 490],
            [name |-> "mcp__github-official__get_issue", tokens |-> 443],
            [name |-> "mcp__github-official__get_pull_request", tokens |-> 468],
            [name |-> "mcp__github-official__list_pull_requests", tokens |-> 632],
            [name |-> "mcp__github-official__create_pull_request_review", tokens |-> 804],
            [name |-> "mcp__github-official__merge_pull_request", tokens |-> 550],
            [name |-> "mcp__github-official__get_pull_request_files", tokens |-> 473],
            [name |-> "mcp__github-official__get_pull_request_status", tokens |-> 475],
            [name |-> "mcp__github-official__update_pull_request_branch", tokens |-> 505],
            [name |-> "mcp__github-official__get_pull_request_comments", tokens |-> 471],
            [name |-> "mcp__github-official__get_pull_request_reviews", tokens |-> 470]>>]) @@
    ("mcp-filesystem" :> [total |-> 4234, tools |-> <<
            [name |-> "mcp__mcp-filesystem__read_file", tokens |-> 456],
            [name |-> "mcp__mcp-filesystem__read_multiple_files", tokens |-> 523],
            [name |-> "mcp__mcp-filesystem__write_file", tokens |-> 398],
            [name |-> "mcp__mcp-filesystem__edit_file", tokens |-> 623],
            [name |-> "mcp__mcp-filesystem__create_directory", tokens |-> 367],
            [name |-> "mcp__mcp-filesystem__list_directory", tokens |-> 423],
            [name |-> "mcp__mcp-filesystem__directory_tree", tokens |-> 445],
            [name |-> "mcp__mcp-filesystem__move_file", tokens |-> 298],
            [name |-> "mcp__mcp-filesystem__search_files", tokens |-> 387],
            [name |-> "mcp__mcp-filesystem__get_file_info", tokens |-> 334]>>]) @@
    ("context7-mcp" :> [total |-> 1023, tools |-> <<
            [name |-> "mcp__context7-mcp__resolve-library-id", tokens |-> 567],
            [name |-> "mcp__context7-mcp__get-library-docs", tokens |-> 456]>>]) @@
    ("brave-search" :> [total |-> 823, tools |-> <<
            [name |-> "mcp__brave-search__brave_web_search", tokens |-> 434],
            [name |-> "mcp__brave-search__brave_local_search", tokens |-> 389]>>]) @@
    ("deep-code-reasoning" :> [total |-> 4267, tools |-> <<
            [name |-> "mcp__deep-code-reasoning__escalate_analysis", tokens |-> 678],
            [name |-> "mcp__deep-code-reasoning__trace_execution_path", tokens |-> 534],
            [name |-> "mcp__deep-code-reasoning__hypothesis_test", tokens |-> 456],
            [name |-> "mcp__deep-code-reasoning__cross_system_impact", tokens |-> 523],
            [name |-> "mcp__deep-code-reasoning__performance_bottleneck", tokens |-> 445],
            [name |-> "mcp__deep-code-reasoning__start_conversation", tokens |-> 389],
            [name |-> "mcp__deep-code-reasoning__continue_conversation", tokens |-> 334],
            [name |-> "mcp__deep-code-reasoning__finalize_conversation", tokens |-> 267]>>]) @@
    ("supabase" :> [total |-> 14567, tools |-> <<
            [name |-> "mcp__supabase__list_organizations", tokens |-> 298],
            [name |-> "mcp__supabase__get_organization", tokens |-> 267],
            [name |-> "mcp__supabase__list_projects", tokens |-> 234],
            [name |-> "mcp__supabase__create_project", tokens |-> 567],
            [name |-> "mcp__supabase__execute_sql", tokens |-> 445],
            [name |-> "mcp__supabase__search_docs", tokens |-> 1234],
            [name |-> "mcp__supabase__deploy_edge_function", tokens |-> 623]>>]) @@
    ("perplexity-mcp" :> [total |-> 345, tools |-> <<
            [name |-> "mcp__perplexity-mcp__perplexity_search_web", tokens |-> 345]>>]) @@
    ("firecrawl" :> [total |-> 6756, tools |-> <<
            [name |-> "mcp__firecrawl__firecrawl_scrape", tokens |-> 1534],
            [name |-> "mcp__firecrawl__firecrawl_crawl", tokens |-> 1634],
            [name |-> "mcp__firecrawl__firecrawl_search", tokens |-> 1298]>>]) @@
    ("awesome-ui-component-library Docs" :> [total |-> 1234, tools |-> <<
            [name |-> "mcp__awesome-ui-component-library_Docs__fetch_awesome_docs", tokens |-> 334],
            [name |-> "mcp__awesome-ui-component-library_Docs__search_repo_docs", tokens |-> 387],
            [name |-> "mcp__awesome-ui-component-library_Docs__search_repo_code", tokens |-> 298],
            [name |-> "mcp__awesome-ui-component-library_Docs__fetch_generic_url_content", tokens |-> 215]>>]) @@
    ("BMAD-METHOD DOCS" :> [total |-> 1456, tools |-> <<
            [name |-> "mcp__BMAD-METHOD_Docs__fetch_BMAD_METHOD_documentation", tokens |-> 423],
            [name |-> "mcp__BMAD-METHOD_Docs__search_BMAD_METHOD_documentation", tokens |-> 456],
            [name |-> "mcp__BMAD-METHOD_Docs__search_BMAD_METHOD_code", tokens |-> 387],
            [name |-> "mcp__BMAD-METHOD_Docs__fetch_generic_url_content", tokens |-> 190]>>])

\* the default estimate for an unknown server
unknownServerTokens == 2000

\* Members every object literal inherits from Object.prototype: table[name] is a
\* truthy function for them although name is no key of the table.
ObjectPrototypeKeys ==
    {"constructor", "toString", "valueOf", "hasOwnProperty", "isPrototypeOf",
     "toLocaleString", "propertyIsEnumerable"}

\* table[server] as the test `if (table[server])` and the reads of .total and
\* .tools see it: None when it is undefined; for an inherited member .total and
\* .tools are undefined, modelled by NaN (what adding it yields) and by an empty
\* tool list.
Lookup(table, server) ==
    IF server \in DOMAIN table THEN Some(table[server])
    ELSE IF server \in ObjectPrototypeKeys THEN Some([total |-> NaN, tools |-> <<>>])
    ELSE None

\* [{ name: `mcp__${server}__unknown`, tokens }]
UnknownTools(server) ==
    <<[name |-> "mcp__" \o server \o "__unknown", tokens |-> unknownServerTokens]>>

\* the body of `for (const server of enabledServers)` of analyzeMcpTools
AddServer(acc, server) ==
    LET hit == Lookup(mcpToolsData, server)
    IN  IF hit # None
        THEN [mcpTotal  |-> JsAdd(acc.mcpTotal, hit[1].total),
              breakdown |-> SetKey(acc.breakdown, server, hit[1].total),
              detailed  |-> SetKey(acc.detailed, server, hit[1].tools)]
        ELSE [mcpTotal  |-> JsAdd(acc.mcpTotal, unknownServerTokens),
              breakdown |-> SetKey(acc.breakdown, server, unknownServerTokens),
              detailed  |-> SetKey(acc.detailed, server, UnknownTools(server))]

RECURSIVE ProcessFrom(_, _, _)
ProcessFrom(acc, enabledServers, i) ==
    IF i > Len(enabledServers) THEN acc
    ELSE ProcessFrom(AddServer(acc, enabledServers[i]), enabledServers, i + 1)

\* the whole loop of analyzeMcpTools, from mcpTotal = 0 and empty objects
ProcessServers(enabledServers) ==
    ProcessFrom([mcpTotal |-> 0, breakdown |-> EmptyObj, detailed |-> EmptyObj],
                enabledServers, 1)

\* the body of enabledServers.forEach of the simplified analyzer
AddServerSimple(acc, server) ==
    LET hit == Lookup(mcpServers, server)
    IN  IF hit # None
        THEN [total            |-> JsAdd(acc.total, hit[1].total),
              mcpToolsDetailed |-> SetKey(acc.mcpToolsDetailed, server, hit[1].tools)]
        ELSE [total            |-> JsAdd(acc.total, unknownServerTokens),
              mcpToolsDetailed |-> SetKey(acc.mcpToolsDetailed, server, UnknownTools(server))]

RECURSIVE ProcessFromSimple(_, _, _)
ProcessFromSimple(acc, enabledServers, i) ==
    IF i > Len(enabledServers) THEN acc
    ELSE ProcessFromSimple(AddServerSimple(acc, enabledServers[i]), enabledServers, i + 1)

ProcessServersSimple(enabledServers) ==
    ProcessFromSimple([total |-> 0, mcpToolsDetailed |-> EmptyObj], enabledServers, 1)

\* Server names the model enables: keys of both tables, a key of the full table
\* only, a key whose totals differ, an unknown name and two inherited members.
ServerNames ==
    {"fetch", "sequential-thinking", "byterover-mcp", "puppeteer", "my-server",
     "constructor", "toString"}

\* the sequences over S of length at most n
RECURSIVE SeqsUpTo(_, _)
SeqsUpTo(S, n) ==
    IF n = 0 THEN {<<>>}
    ELSE SeqsUpTo(S, n - 1) \cup
         {Append(q, x) : q \in {r \in SeqsUpTo(S, n - 1) : Len(r) = n - 1}, x \in S}

EnabledLists == SeqsUpTo(ServerNames, MaxServers)


(***************************************************************************)
(* The command wrapper: the ContextCommand object of context-cmd.js.       *)
(***************************************************************************)
\* this.cacheTimeout = 2 * 60 * 1000
cacheTimeout == 120000

\* Texts. What execute() returns is the stdout of the analyzer, which is the
\* empty string or a report, or the canned report of getFallbackAnalysis.
EmptyText == [kind |-> "empty"]
CannedText == [kind |-> "canned"]
ReportText(r) == [kind |-> "report", report |-> r]

\* new ContextCommand(): the three members of the cached slot are null. The
\* other fields are the execute() call in progress or last made: how many calls
\* were made, its position, its currentProject and mode, the command it handed
\* to child_process and how that child ended, its last console message and the
\* text it returned. lastAnalysisMode records the mode of the call whose child
\* wrote lastAnalysis; the object keeps no such member.
NewCommand ==
    [lastAnalysis |-> None, lastAnalysisTime |-> NoTime, lastAnalysisProject |-> NoPath,
     lastAnalysisMode |-> "",
     calls |-> 0, pc |-> "idle", currentProject |-> NoPath, mode |-> "",
     command |-> None, child |-> "none", message |-> "none", returned |-> None]

\* a variant that serves the slot up to and including the timeout
shouldUseCacheInclusive(c, t, currentProject) ==
    /\ c.lastAnalysis # None /\ c.lastAnalysis[1] # EmptyText
    /\ Truthy(c.lastAnalysisTime)
    /\ c.lastAnalysisProject = currentProject
    /\ t - c.lastAnalysisTime <= cacheTimeout

\* shouldUseCache at time t: !this.lastAnalysis is true of null and of the empty
\* string, !this.lastAnalysisTime of null and of 0
shouldUseCache(c, t, currentProject) ==
    /\ c.lastAnalysis # None /\ c.lastAnalysis[1] # EmptyText
    /\ Truthy(c.lastAnalysisTime)
    /\ c.lastAnalysisProject = currentProject
    /\ t - c.lastAnalysisTime < cacheTimeout

(***************************************************************************)
(* The ContextAnalyzer object.                                             *)
(***************************************************************************)
\* the fixed estimates and the fallback estimates of the full analyzer
systemPromptTokens == 8500
systemToolsTokens == 15200
mcpFallback == 120000
agentsFallback == 8900
agentFileFallback == 1000
memoryFallback == 2700
\* the timeouts, in ms: the global one, the read of CLAUDE.md, the read of an
\* agent file, and the pause between two batches
globalTimeout == 3000
memoryReadTimeout == 3000
agentReadTimeout == 5000
batchDelay == 10
batchSize == 5
\* the thresholds of generateOptimizationRecommendations
mcpThreshold == 100000
agentsThreshold == 10000
serverCountThreshold == 15

\* new ContextAnalyzer(claudeDir): breakdown is {}, so its three members are
\* undefined (None) until an analyzer assigns them.
NewAnalyzer(claudeDir) ==
    [claudeDir   |-> claudeDir,
     projectRoot |-> claudeDir,
     results     |-> [systemPrompt |-> 0, systemTools |-> 0, mcpTools |-> 0,
                      customAgents |-> 0, memoryFiles |-> 0, total |-> 0,
                      breakdown |-> [mcpServers |-> None, mcpToolsDetailed |-> None,
                                     agents |-> None],
                      optimization |-> <<>>,
                      projectPath |-> claudeDir]]

\* Object.keys(this.results.breakdown.mcpServers || {}).length
ServerCount(results) ==
    IF results.breakdown.mcpServers = None THEN 0
    ELSE Cardinality(DOMAIN results.breakdown.mcpServers[1])

\* generateOptimizationRecommendations: the list it assigns to results.optimization
Recommendations(mcpTools, customAgents, serverCount) ==
    (IF JsGt(mcpTools, mcpThreshold)
     THEN <<[impact |-> "high", title |-> "Consolidate MCP Servers"]>> ELSE <<>>)
    \o
    (IF JsGt(customAgents, agentsThreshold)
     THEN <<[impact |-> "high", title |-> "Optimize Agent Architecture"]>> ELSE <<>>)
    \o
    (IF serverCount > serverCountThreshold
     THEN <<[impact |-> "medium", title |-> "Selective MCP Loading"]>> ELSE <<>>)

generateOptimizationRecommendations(results) ==
    [results EXCEPT !.optimization =
        Recommendations(results.mcpTools, results.customAgents, ServerCount(results))]

\* systemPrompt + systemTools + mcpTools + customAgents + memoryFiles
SumOfCategories(results) ==
    JsAdd(JsAdd(JsAdd(JsAdd(results.systemPrompt, results.systemTools),
                      results.mcpTools), results.customAgents), results.memoryFiles)

\* this.results.total = ...
ComputeTotal(results) == [results EXCEPT !.total = SumOfCategories(results)]


(***************************************************************************)
(* What the environment hands to the analyzers.                            *)
(***************************************************************************)
\* The outcome of JSON.parse(await fs.readFile(settingsPath)): the read fails,
\* the text is no JSON, the JSON is null, an object without
\* enabledMcpjsonServers, an object whose enabledMcpjsonServers cannot be
\* iterated (a number, an object), or an object with a list of names.
SettingsOf(kind, enabled) == [kind |-> kind, enabled |-> enabled]
ReadEnabledLists == {<<"fetch">>, <<"constructor">>}
SettingsReads ==
    {SettingsOf(k, <<>>) : k \in {"unreadable", "malformed", "null", "noList", "badList"}}
    \cup {SettingsOf("list", l) : l \in ReadEnabledLists}

\* the settings reads of SpecCalls: a failed read and a list of one known name
CallSettings == {SettingsOf("unreadable", <<>>), SettingsOf("list", <<"fetch">>)}

\* a variant in which only a failed read falls through to the global file
ParsesUnlessUnreadable(s) == s.kind # "unreadable"

\* JSON.parse(await fs.readFile(...)) returns
Parses(s) == s.kind \notin {"unreadable", "malformed"}
\* settings.enabledMcpjsonServers || [] and the for-of over it throw a TypeError
ThrowsAfterParse(s) == s.kind \in {"null", "badList"}

\* entries of the agents directory: the name and whether it ends with '.md'
FileOf(name, md) == [name |-> name, md |-> md]
\* a directory of one agent, and one of six entries (two batches) of which one
\* is an agent
ShortListings == {<<FileOf("a.md", TRUE)>>}
AgentListings ==
    {<<FileOf("a.md", TRUE), FileOf("t1.txt", FALSE), FileOf("t2.txt", FALSE),
       FileOf("t3.txt", FALSE), FileOf("t4.txt", FALSE), FileOf("t5.txt", FALSE)>>}

\* lengths of the texts a read returns: of an agent file, and of CLAUDE.md (an
\* empty file and a short one)
AgentLens == {6}
MemoryLens == {0, 6}

\* path.join(agentsDir, file) and path.join(this.claudeDir, 'CLAUDE.md')
AgentPath(a, file) == <<a.claudeDir, "agents/" \o file.name>>
ClaudeMdPath(a) == <<a.claudeDir, "CLAUDE.md">>

(***************************************************************************)
(* The three analyzers that read files: positions and locals.              *)
(***************************************************************************)
IdleMcp == [pc |-> "idle", fromCache |-> FALSE]
\* pending: the files of the batch whose read is awaited; abandoned: the files
\* whose read lost the race against its timer and goes on, nothing cancels it
IdleAg == [pc |-> "idle", fromCache |-> FALSE, agentFiles |-> <<>>, i |-> 0,
           pending |-> {}, abandoned |-> {}, timerStart |-> NoTime,
           totalTokens |-> 0, agentBreakdown |-> EmptyObj]
IdleMem == [pc |-> "idle", fromCache |-> FALSE, timerStart |-> NoTime]

Settled(task) == task.pc \in {"idle", "done"}
AllSettledNow == Settled(mcp) /\ Settled(ag) /\ Settled(mem)

\* analyzeMcpTools up to its first await: the snapshot is used, or the read of
\* the local settings starts. st = [results, cache, task].
McpHit(c, t, a) == isCacheValid(c, t, a.projectRoot) /\ c.mcpTools # None
McpStart(c, t, a, results) ==
    IF McpHit(c, t, a)
    THEN [results |-> [results EXCEPT
                          !.mcpTools = c.mcpTools[1].total,
                          !.breakdown.mcpServers = Some(c.mcpTools[1].breakdown),
                          !.breakdown.mcpToolsDetailed = Some(c.mcpTools[1].detailed)],
          task |-> [IdleMcp EXCEPT !.pc = "done", !.fromCache = TRUE]]
    ELSE [results |-> results,
          task |-> [IdleMcp EXCEPT !.pc = "readLocal"]]

\* analyzeCustomAgents up to its first await
AgHit(c, t, a) == isCacheValid(c, t, a.projectRoot) /\ c.customAgents # None
AgStart(c, t, a, results) ==
    IF AgHit(c, t, a)
    THEN [results |-> [results EXCEPT
                          !.customAgents = c.customAgents[1].total,
                          !.breakdown.agents = Some(c.customAgents[1].breakdown)],
          task |-> [IdleAg EXCEPT !.pc = "done", !.fromCache = TRUE]]
    ELSE [results |-> results, task |-> [IdleAg EXCEPT !.pc = "access"]]

\* analyzeMemoryFiles up to its first await: the snapshot, else the file cache
\* (which also fills cache.memoryFiles), else the read starts and its timer
MemHit(c, t, a) ==
    isCacheValid(c, t, a.projectRoot) /\ c.memoryFiles # None /\ Truthy(c.memoryFiles[1])
MemStart(c, t, a, results) ==
    IF MemHit(c, t, a)
    THEN [results |-> [results EXCEPT !.memoryFiles = c.memoryFiles[1]],
          cache |-> c, stored |-> FALSE,
          task |-> [IdleMem EXCEPT !.pc = "done", !.fromCache = TRUE]]
    ELSE IF isFileCacheValid(c, t, ClaudeMdPath(a))
    THEN LET tokens == c.fileCache[FileCacheIndex(c, ClaudeMdPath(a))].tokens
         IN  [results |-> [results EXCEPT !.memoryFiles = tokens],
              cache |-> [c EXCEPT !.memoryFiles = Some(tokens)], stored |-> TRUE,
              task |-> [IdleMem EXCEPT !.pc = "done"]]
    ELSE [results |-> results, cache |-> c, stored |-> FALSE,
          task |-> [IdleMem EXCEPT !.pc = "read", !.timerStart = t]]


(***************************************************************************)
(* analyze(): initialize, the five analyzers, the race with the timeout.   *)
(***************************************************************************)
MaxProjects == 2
\* how far above and below maxIterations the depth of the working directory
\* ranges in the walks that meet the cap
MaxCapSlack == 2
\* calls of analyze() in the analysis with timers of one agents directory
MaxBatchRuns == 1
Projects == 1..MaxProjects
NoOrigin == [mcpTools |-> NoPath, customAgents |-> NoPath, memoryFiles |-> NoPath]

\* a variant that never throws: the analyzer goes on without a directory
initializeNeverThrows(a, found) ==
    IF a.claudeDir # NoPath \/ found = NoPath THEN Some(a)
    ELSE Some([a EXCEPT !.claudeDir = found, !.projectRoot = found,
                        !.results.projectPath = found])

\* initialize() after cleanupCache(): None when it throws 'No .claude directory
\* found', else the analyzer with its directory resolved. found is what
\* findClaudeDirectory() returns from the current working directory.
initialize(a, found) ==
    IF a.claudeDir # NoPath THEN Some(a)
    ELSE IF found = NoPath THEN None
    ELSE Some([a EXCEPT !.claudeDir = found, !.projectRoot = found,
                        !.results.projectPath = found])

\* the history of the snapshot slots across cleanupCache
OriginAfterCleanup(o, c, t) == IF SnapshotExpired(c, t) THEN NoOrigin ELSE o

ProgramInit ==
    /\ now = 1 /\ ticks = 0 /\ runs = 0
    /\ cache = EmptyCache /\ origin = NoOrigin
    /\ an = NewAnalyzer(NoPath) /\ pc = "idle" /\ startTime = NoTime
    /\ mcp = IdleMcp /\ ag = IdleAg /\ mem = IdleMem
    /\ cmd = NewCommand

Init == ProgramInit /\ input = None /\ output = None

\* what findClaudeDirectory() returns, over the working directories and the
\* .claude entries above them
Discoveries ==
    {findClaudeDirectory(cwd, markers) :
        cwd \in Projects, markers \in [Projects -> MarkerKinds]}

\* Calls are made one after the other, each on an analyzer of its own, as the
\* command line does: the next one starts when the one before has returned and
\* the reads it left in flight have completed.
CanCall == pc # "racing" /\ AllSettledNow /\ ag.abandoned = {}

\* new ContextAnalyzer(claudeDir).analyze() when initialize() throws: the call
\* rejects
AnalyzeFail(claudeDir) ==
    /\ CanCall
    /\ \E found \in Discoveries : initialize(NewAnalyzer(claudeDir), found) = None
    /\ an' = NewAnalyzer(claudeDir)
    /\ cache' = cleanupCache(cache, now)
    /\ origin' = OriginAfterCleanup(origin, cache, now)
    /\ pc' = "failed"
    /\ runs' = runs + 1
    /\ mcp' = IdleMcp /\ ag' = IdleAg /\ mem' = IdleMem
    /\ UNCHANGED <<now, ticks, startTime, input, output, cmd>>

\* new ContextAnalyzer(claudeDir).analyze() up to `await Promise.race`:
\* initialize, then each analyzer runs to its first await, in the order of
\* analysisPromises, and the timeout is armed
AnalyzeStart(claudeDir) ==
    /\ CanCall
    /\ \E found \in Discoveries :
          LET init == initialize(NewAnalyzer(claudeDir), found)
          IN  /\ init # None
              /\ LET a == init[1]
                     c1 == cleanupCache(cache, now)
                     r0 == [a.results EXCEPT !.systemPrompt = systemPromptTokens,
                                             !.systemTools = systemToolsTokens]
                     m == McpStart(c1, now, a, r0)
                     g == AgStart(c1, now, a, m.results)
                     e == MemStart(c1, now, a, g.results)
                     o1 == OriginAfterCleanup(origin, cache, now)
                 IN  /\ an' = [a EXCEPT !.results = e.results]
                     /\ cache' = e.cache
                     /\ origin' = IF e.stored
                                  THEN [o1 EXCEPT !.memoryFiles = a.projectRoot]
                                  ELSE o1
                     /\ mcp' = m.task /\ ag' = g.task /\ mem' = e.task
    /\ pc' = "racing"
    /\ startTime' = now
    /\ runs' = runs + 1
    /\ UNCHANGED <<now, ticks, input, output, cmd>>

\* the catch of analyzeMcpTools: the fallback estimate, nothing is cached
McpCatch(c, a) ==
    [results |-> [a.results EXCEPT !.mcpTools = mcpFallback],
     cache |-> c, stored |-> FALSE]

\* analyzeMcpTools from parsed settings on: the TypeError of a null settings
\* value or of a list that cannot be iterated lands in the catch
McpProcess(c, t, a, s) ==
    IF ThrowsAfterParse(s)
    THEN McpCatch(c, a)
    ELSE LET acc == ProcessServers(s.enabled)
         IN  [results |-> [a.results EXCEPT
                              !.mcpTools = acc.mcpTotal,
                              !.breakdown.mcpServers = Some(acc.breakdown),
                              !.breakdown.mcpToolsDetailed = Some(acc.detailed)],
              cache |-> [c EXCEPT
                            !.mcpTools = Some([total |-> acc.mcpTotal,
                                               breakdown |-> acc.breakdown,
                                               detailed |-> acc.detailed]),
                            !.timestamp = t,
                            !.projectPath = a.projectRoot],
              stored |-> TRUE]

\* analyzeMcpTools on a snapshot miss as one function of what the two reads
\* return: the files it consulted and what McpProcess or the catch leaves
analyzeMcpTools(c, t, a, local, global) ==
    IF Parses(local)
    THEN [consulted |-> <<"local">>, end |-> McpProcess(c, t, a, local)]
    ELSE IF Parses(global)
    THEN [consulted |-> <<"local", "global">>, end |-> McpProcess(c, t, a, global)]
    ELSE [consulted |-> <<"local", "global">>, end |-> McpCatch(c, a)]

McpEnd(p) ==
    /\ an' = [an EXCEPT !.results = p.results]
    /\ cache' = p.cache
    /\ origin' = IF p.stored THEN [origin EXCEPT !.mcpTools = an.projectRoot]
                 ELSE origin
    /\ mcp' = [mcp EXCEPT !.pc = "done"]

\* the read of <claudeDir>/settings.local.json completes
McpReadLocal(s) ==
    /\ mcp.pc = "readLocal"
    /\ IF Parses(s)
       THEN McpEnd(McpProcess(cache, now, an, s))
       ELSE /\ mcp' = [mcp EXCEPT !.pc = "readGlobal"]
            /\ UNCHANGED <<an, cache, origin>>
    /\ UNCHANGED <<now, ticks, runs, pc, startTime, ag, mem, input, output, cmd>>

\* the read of $HOME/.claude/settings.local.json completes (an unset HOME makes
\* path.join throw, which ends in the same catch as a failed read)
McpReadGlobal(s) ==
    /\ mcp.pc = "readGlobal"
    /\ IF Parses(s)
       THEN McpEnd(McpProcess(cache, now, an, s))
       ELSE McpEnd(McpCatch(cache, an))
    /\ UNCHANGED <<now, ticks, runs, pc, startTime, ag, mem, input, output, cmd>>


Min(x, y) == IF x <= y THEN x ELSE y

\* One batch up to the awaits of its reads, files k..last in array order: a file
\* that is no .md is skipped, a valid file-cache entry is added at once, any
\* other file starts a read raced against its timer.
RECURSIVE SyncBatch(_, _, _, _, _, _)
SyncBatch(g, c, t, a, k, last) ==
    IF k > last THEN g
    ELSE LET file == g.agentFiles[k]
             path == AgentPath(a, file)
             g1 == IF ~file.md THEN g
                   ELSE IF isFileCacheValid(c, t, path)
                   THEN LET tokens == c.fileCache[FileCacheIndex(c, path)].tokens
                        IN  [g EXCEPT !.totalTokens = JsAdd(@, tokens),
                                      !.agentBreakdown = SetKey(@, file.name, tokens)]
                   ELSE [g EXCEPT !.pending = @ \cup {k}]
         IN  SyncBatch(g1, c, t, a, k + 1, last)

\* Where analyzeCustomAgents stands once Promise.all of the batch may have
\* resolved: reads pend, or the pause before the next batch starts, or the loop
\* has ended.
AfterBatch(g, t) ==
    IF g.pending # {} THEN [g EXCEPT !.pc = "batch"]
    ELSE IF g.i + batchSize < Len(g.agentFiles)
    THEN [g EXCEPT !.pc = "delay", !.timerStart = t]
    ELSE [g EXCEPT !.pc = "finish"]

\* the batch agentFiles.slice(i, i + batchSize) starts
BeginBatch(g, c, t, a) ==
    AfterBatch(SyncBatch([g EXCEPT !.timerStart = t], c, t, a, g.i + 1,
                         Min(g.i + batchSize, Len(g.agentFiles))), t)

\* The step of analyzeCustomAgents ends with task g and cache c: after the loop
\* the totals are written to the results and to the snapshot.
AgCommit(g, c) ==
    IF g.pc = "finish"
    THEN /\ ag' = [IdleAg EXCEPT !.pc = "done", !.abandoned = g.abandoned]
         /\ an' = [an EXCEPT !.results.customAgents = g.totalTokens,
                             !.results.breakdown.agents = Some(g.agentBreakdown)]
         /\ cache' = [c EXCEPT !.customAgents =
                         Some([total |-> g.totalTokens, breakdown |-> g.agentBreakdown])]
         /\ origin' = [origin EXCEPT !.customAgents = an.projectRoot]
    ELSE /\ ag' = g
         /\ cache' = c
         /\ UNCHANGED <<an, origin>>

\* a variant in which a missing agents directory ends in the outer catch
AgAccessFallback(exists) ==
    /\ ag.pc = "access"
    /\ IF exists
       THEN /\ ag' = [ag EXCEPT !.pc = "readdir"]
            /\ UNCHANGED an
       ELSE /\ ag' = [ag EXCEPT !.pc = "done"]
            /\ an' = [an EXCEPT !.results.customAgents = agentsFallback]
    /\ UNCHANGED <<now, ticks, runs, cache, origin, pc, startTime, mcp, mem, input, output, cmd>>

\* fs.access(agentsDir) completes: a missing directory counts 0 agents
AgAccess(exists) ==
    /\ ag.pc = "access"
    /\ IF exists
       THEN /\ ag' = [ag EXCEPT !.pc = "readdir"]
            /\ UNCHANGED an
       ELSE /\ ag' = [ag EXCEPT !.pc = "done"]
            /\ an' = [an EXCEPT !.results.customAgents = 0,
                                !.results.breakdown.agents = Some(EmptyObj)]
    /\ UNCHANGED <<now, ticks, runs, cache, origin, pc, startTime, mcp, mem, input, output, cmd>>

\* fs.readdir(agentsDir) rejects: the outer catch
AgReaddirFail ==
    /\ ag.pc = "readdir"
    /\ ag' = [ag EXCEPT !.pc = "done"]
    /\ an' = [an EXCEPT !.results.customAgents = agentsFallback]
    /\ UNCHANGED <<now, ticks, runs, cache, origin, pc, startTime, mcp, mem, input, output, cmd>>

\* fs.readdir(agentsDir) resolves: the first batch starts
AgReaddir(files) ==
    /\ ag.pc = "readdir"
    /\ AgCommit(BeginBatch([ag EXCEPT !.agentFiles = files, !.i = 0], cache, now, an), cache)
    /\ UNCHANGED <<now, ticks, runs, pc, startTime, mcp, mem, input, output, cmd>>

\* the read of agent file k resolves with a text of len characters
AgRead(k, len) ==
    /\ ag.pc = "batch" /\ k \in ag.pending
    /\ LET file == ag.agentFiles[k]
           tokens == estimateTokens(len)
           g == [ag EXCEPT !.pending = @ \ {k},
                           !.totalTokens = JsAdd(@, tokens),
                           !.agentBreakdown = SetKey(@, file.name, tokens)]
       IN  AgCommit(AfterBatch(g, now), FileCacheSet(cache, AgentPath(an, file), tokens, now))
    /\ UNCHANGED <<now, ticks, runs, pc, startTime, mcp, mem, input, output, cmd>>

\* a variant that adds the fallback to the total and leaves the breakdown alone
AgFileFallbackTotalOnly(g, k) ==
    [g EXCEPT !.pending = @ \ {k},
              !.totalTokens = JsAdd(@, agentFileFallback)]

\* the fallback of an agent file whose read failed or timed out
AgFileFallback(g, k) ==
    [g EXCEPT !.pending = @ \ {k},
              !.totalTokens = JsAdd(@, agentFileFallback),
              !.agentBreakdown = SetKey(@, g.agentFiles[k].name, agentFileFallback)]

\* a variant that stores the fallback of a rejected read in the file cache
AgReadFailCaches(k) ==
    /\ ag.pc = "batch" /\ k \in ag.pending
    /\ AgCommit(AfterBatch(AgFileFallback(ag, k), now),
                FileCacheSet(cache, AgentPath(an, ag.agentFiles[k]), agentFileFallback, now))
    /\ UNCHANGED <<now, ticks, runs, pc, startTime, mcp, mem, input, output, cmd>>

\* the read of agent file k rejects
AgReadFail(k) ==
    /\ ag.pc = "batch" /\ k \in ag.pending
    /\ AgCommit(AfterBatch(AgFileFallback(ag, k), now), cache)
    /\ UNCHANGED <<now, ticks, runs, pc, startTime, mcp, mem, input, output, cmd>>

\* the 5 s timer of the read of agent file k fires before the read completes:
\* the race rejects, fs.readFile itself is left running
AgReadTimeout(k) ==
    /\ ag.pc = "batch" /\ k \in ag.pending
    /\ now >= ag.timerStart + agentReadTimeout
    /\ AgCommit(AfterBatch([AgFileFallback(ag, k) EXCEPT !.abandoned = @ \cup {k}], now),
                cache)
    /\ UNCHANGED <<now, ticks, runs, pc, startTime, mcp, mem, input, output, cmd>>

\* the read of agent file k completes or fails after its timer has fired: the
\* race is settled already, the outcome is dropped
AgReadLate(k) ==
    /\ k \in ag.abandoned
    /\ ag' = [ag EXCEPT !.abandoned = @ \ {k}]
    /\ UNCHANGED <<now, ticks, runs, cache, origin, an, pc, startTime, mcp, mem, input, output, cmd>>

\* the pause between two batches ends: i += batchSize
AgDelayDone ==
    /\ ag.pc = "delay"
    /\ now >= ag.timerStart + batchDelay
    /\ AgCommit(BeginBatch([ag EXCEPT !.i = @ + batchSize], cache, now, an), cache)
    /\ UNCHANGED <<now, ticks, runs, pc, startTime, mcp, mem, input, output, cmd>>

\* the read of CLAUDE.md resolves with a text of len characters
MemRead(len) ==
    /\ mem.pc = "read"
    /\ LET tokens == estimateTokens(len)
       IN  /\ an' = [an EXCEPT !.results.memoryFiles = tokens]
           /\ cache' = FileCacheSet([cache EXCEPT !.memoryFiles = Some(tokens)],
                                    ClaudeMdPath(an), tokens, now)
    /\ origin' = [origin EXCEPT !.memoryFiles = an.projectRoot]
    /\ mem' = [mem EXCEPT !.pc = "done"]
    /\ UNCHANGED <<now, ticks, runs, pc, startTime, mcp, ag, input, output, cmd>>

\* the read of CLAUDE.md rejects
MemReadFail ==
    /\ mem.pc = "read"
    /\ an' = [an EXCEPT !.results.memoryFiles = memoryFallback]
    /\ mem' = [mem EXCEPT !.pc = "done"]
    /\ UNCHANGED <<now, ticks, runs, cache, origin, pc, startTime, mcp, ag, input, output, cmd>>

\* the 3 s timer of the read of CLAUDE.md fires before the read completes
MemReadTimeout ==
    /\ mem.pc = "read"
    /\ now >= mem.timerStart + memoryReadTimeout
    /\ an' = [an EXCEPT !.results.memoryFiles = memoryFallback]
    /\ mem' = [mem EXCEPT !.pc = "done"]
    /\ UNCHANGED <<now, ticks, runs, cache, origin, pc, startTime, mcp, ag, input, output, cmd>>

\* Promise.allSettled wins the race: the recommendations, the total, the return
RaceSettled ==
    /\ pc = "racing"
    /\ AllSettledNow
    /\ an' = [an EXCEPT !.results =
                 ComputeTotal(generateOptimizationRecommendations(an.results))]
    /\ pc' = "returned"
    /\ UNCHANGED <<now, ticks, runs, cache, origin, startTime, mcp, ag, mem, input, output, cmd>>

\* The global timeout wins the race: the catch skips the recommendations, the
\* total is computed from the fields as they are and analyze() returns. The
\* timer of the read of CLAUDE.md was armed in the same tick before this one and
\* for the same delay, so it has fired by now.
RaceTimeout ==
    /\ pc = "racing"
    /\ ~AllSettledNow
    /\ now >= startTime + globalTimeout
    /\ mem.pc # "read"
    /\ an' = [an EXCEPT !.results = ComputeTotal(an.results)]
    /\ pc' = "returned"
    /\ UNCHANGED <<now, ticks, runs, cache, origin, startTime, mcp, ag, mem, input, output, cmd>>

\* a variant in which the read of an agent file is raced against no timer
DeadlinesWithoutReadTimer ==
    (IF pc = "racing" THEN {startTime + globalTimeout} ELSE {})
    \cup (IF mem.pc = "read" THEN {mem.timerStart + memoryReadTimeout} ELSE {})
    \cup (IF ag.pc = "delay" THEN {ag.timerStart + batchDelay} ELSE {})

\* the times at which an armed timer fires
Deadlines ==
    (IF pc = "racing" THEN {startTime + globalTimeout} ELSE {})
    \cup (IF mem.pc = "read" THEN {mem.timerStart + memoryReadTimeout} ELSE {})
    \cup (IF ag.pc = "batch" THEN {ag.timerStart + agentReadTimeout} ELSE {})
    \cup (IF ag.pc = "delay" THEN {ag.timerStart + batchDelay} ELSE {})

\* by how much the clock advances while no timer is armed
TickSteps == {299999, 300000, 300001}

\* The clock advances: to the time at which an armed timer fires, never past
\* one, or by one of TickSteps while none is armed.
Tick(t) ==
    /\ t > now
    /\ \A dl \in Deadlines : t <= dl
    /\ now' = t
    /\ ticks' = ticks + 1
    /\ UNCHANGED <<runs, cache, origin, an, pc, startTime, mcp, ag, mem, input, output, cmd>>

Next ==
    \/ runs < MaxRuns /\ \E d \in Projects \cup {NoPath} : AnalyzeFail(d)
    \/ runs < MaxRuns /\ \E d \in Projects \cup {NoPath} : AnalyzeStart(d)
    \/ \E s \in SettingsReads : McpReadLocal(s)
    \/ \E s \in SettingsReads : McpReadGlobal(s)
    \/ \E exists \in BOOLEAN : AgAccess(exists)
    \/ AgReaddirFail
    \/ \E files \in AgentListings : AgReaddir(files)
    \/ \E k \in ag.pending, len \in AgentLens : AgRead(k, len)
    \/ \E k \in ag.pending : AgReadFail(k)
    \/ \E k \in ag.pending : AgReadTimeout(k)
    \/ \E k \in ag.abandoned : AgReadLate(k)
    \/ AgDelayDone
    \/ \E len \in MemoryLens : MemRead(len)
    \/ MemReadFail
    \/ MemReadTimeout
    \/ RaceSettled
    \/ RaceTimeout
    \/ ticks < MaxTicks /\
          \E t \in IF Deadlines = {} THEN {now + d : d \in TickSteps} ELSE Deadlines : Tick(t)

Spec == Init /\ [][Next]_vars

\* Calls in succession in one process, the clock advancing between them by about
\* the TTL of the snapshot: every read completes before a timer fires; a settings
\* file or CLAUDE.md may be unreadable and the agents directory may be missing.
NextCalls ==
    \/ runs < MaxCalls /\ \E d \in Projects \cup {NoPath} : AnalyzeFail(d)
    \/ runs < MaxCalls /\ \E d \in Projects \cup {NoPath} : AnalyzeStart(d)
    \/ \E s \in CallSettings : McpReadLocal(s)
    \/ \E s \in CallSettings : McpReadGlobal(s)
    \/ \E exists \in BOOLEAN : AgAccess(exists)
    \/ \E files \in ShortListings : AgReaddir(files)
    \/ \E k \in ag.pending, len \in AgentLens : AgRead(k, len)
    \/ \E len \in AgentLens : MemRead(len)
    \/ MemReadFail
    \/ RaceSettled
    \/ ticks < MaxGaps /\ \E d \in TickSteps : Tick(now + d)

SpecCalls == Init /\ [][NextCalls]_vars

\* Calls in succession in one process at one instant, on one project or another:
\* every read completes, or fails, at once.
NextSwitches ==
    \/ runs < MaxSwitches /\ \E d \in Projects \cup {NoPath} : AnalyzeFail(d)
    \/ runs < MaxSwitches /\ \E d \in Projects \cup {NoPath} : AnalyzeStart(d)
    \/ \E s \in CallSettings : McpReadLocal(s)
    \/ \E s \in CallSettings : McpReadGlobal(s)
    \/ \E exists \in BOOLEAN : AgAccess(exists)
    \/ AgReaddirFail
    \/ \E files \in ShortListings : AgReaddir(files)
    \/ \E k \in ag.pending, len \in AgentLens : AgRead(k, len)
    \/ \E k \in ag.pending : AgReadFail(k)
    \/ \E len \in AgentLens : MemRead(len)
    \/ MemReadFail
    \/ RaceSettled

SpecSwitches == Init /\ [][NextSwitches]_vars


(***************************************************************************)
(* Function-level specifications: the input is drawn in the initial state  *)
(* and one action applies the function to it.                              *)
(***************************************************************************)
Rest == <<now, ticks, runs, cache, origin, an, pc, startTime, mcp, ag, mem, cmd>>

\* --- directory discovery: the three variants on one start path -----------
LocateInputs == [startPath : 1..MaxDepth, markers : [1..MaxDepth -> MarkerKinds]]

InitLocate == ProgramInit /\ input \in {Some(i) : i \in LocateInputs} /\ output = None

Locate ==
    /\ output = None
    /\ LET i == input[1]
       IN  output' = Some([full   |-> findClaudeDirectory(i.startPath, i.markers),
                           cmd    |-> findClaudeDirectoryCmd(i.startPath, i.markers),
                           simple |-> findClaudeDirectorySimple(i.startPath, i.markers)])
    /\ UNCHANGED <<Rest, input>>

SpecLocate == InitLocate /\ [][Locate]_vars

\* --- cleanupCache on a file cache of up to MaxEntries entries ------------
\* The timestamps of n entries in insertion order: ascending, descending, all
\* equal, or scattered (37 i mod 103 is one-to-one on 1..103).
StampPatterns == {"ascending", "descending", "equal", "scattered"}
Stamp(pattern, n, i) ==
    CASE pattern = "ascending"  -> i
      [] pattern = "descending" -> n + 1 - i
      [] pattern = "equal"      -> 1
      [] OTHER                  -> ((i * 37) % 103) + 1

FileCacheOf(pattern, n) ==
    [i \in 1..n |-> [path |-> <<NoPath, i>>, tokens |-> i, timestamp |-> Stamp(pattern, n, i)]]

\* cleanupCache runs at fileCacheTtl + cut: the entries stamped below cut have
\* expired
Cuts == {0, 1, 2, 52}
PruneInputs ==
    {[fileCache |-> FileCacheOf(pattern, n), now |-> fileCacheTtl + cut] :
        pattern \in StampPatterns, n \in 0..MaxEntries, cut \in Cuts}

InitPrune == ProgramInit /\ input \in {Some(i) : i \in PruneInputs} /\ output = None

Prune ==
    /\ output = None
    /\ LET i == input[1]
       IN  output' = Some(cleanupCache([EmptyCache EXCEPT !.fileCache = i.fileCache],
                                       i.now).fileCache)
    /\ UNCHANGED <<Rest, input>>

SpecPrune == InitPrune /\ [][Prune]_vars

\* --- the loops over enabledMcpjsonServers of both analyzers --------------
InitMcp == ProgramInit /\ input \in {Some(l) : l \in EnabledLists} /\ output = None

SumServers ==
    /\ output = None
    /\ output' = Some([full   |-> ProcessServers(input[1]),
                       simple |-> ProcessServersSimple(input[1])])
    /\ UNCHANGED <<Rest, input>>

SpecMcp == InitMcp /\ [][SumServers]_vars

\* --- analyzeMcpTools on what the local and the global read return --------
AllSettingsReads ==
    {SettingsOf(k, <<>>) : k \in {"unreadable", "malformed", "null", "noList", "badList"}}
    \cup {SettingsOf("list", l) : l \in EnabledLists}

InitSettings ==
    /\ ProgramInit
    /\ input \in {Some([local |-> l, global |-> g]) : l, g \in AllSettingsReads}
    /\ output = None

ReadSettings ==
    /\ output = None
    /\ output' = Some(analyzeMcpTools(EmptyCache, now, NewAnalyzer(1),
                                      input[1].local, input[1].global))
    /\ UNCHANGED <<Rest, input>>

SpecSettings == InitSettings /\ [][ReadSettings]_vars


(***************************************************************************)
(* The simplified analyzer: analyze() of context-analyzer.js from line 910,*)
(* the script the command wrapper runs.                                    *)
(***************************************************************************)
\* its fixed estimates, its fallback estimates and its limit on the entries read
simpleSystemPrompt == 8500
simpleSystemTools == 15200
simpleMcpFallback == 120000
simpleAgentLimit == 10
simpleAgentFileFallback == 100
simpleAgentsFallback == 4500
simpleMemoryFallback == 13200
standardAgentLines == 5
compactAgentLines == 3

\* the mcpToolsDetailed the catch around the settings block assigns
FallbackToolsDetailed ==
    ("fetch" :> <<[name |-> "mcp__fetch__fetch", tokens |-> 643]>>) @@
    ("github-official" :> <<
        [name |-> "mcp__github-official__create_or_update_file", tokens |-> 570],
        [name |-> "mcp__github-official__search_repositories", tokens |-> 474]>>)

\* the try block that reads settings.local.json of the project: a failed read or
\* parse, a null and a list that has no forEach all land in its catch
SimpleMcp(s) ==
    IF ~Parses(s) \/ ThrowsAfterParse(s)
    THEN [total |-> simpleMcpFallback, mcpToolsDetailed |-> FallbackToolsDetailed]
    ELSE ProcessServersSimple(s.enabled)

\* an entry of the agents directory as the simplified analyzer meets it: its
\* name, whether the name ends with '.md', and what fs.readFile gives for it
\* (None when it rejects, otherwise the length of the text)
SimpleFileOf(name, md, read) == [name |-> name, md |-> md, read |-> read]

\* files.slice(0, k)
SliceFirst(files, k) == IF Len(files) <= k THEN files ELSE SubSeq(files, 1, k)

\* The body of `for (const file of files.slice(0, 10))`. agentBreakdown is kept
\* as the sequence Object.entries gives: one [file, tokens] entry per key, in
\* insertion order (the names of one directory differ).
AddAgentSimple(acc, file) ==
    IF ~file.md THEN acc
    ELSE LET tokens == IF file.read = None THEN simpleAgentFileFallback
                       ELSE estimateTokens(file.read[1])
         IN  [customAgents   |-> acc.customAgents + tokens,
              agentBreakdown |-> Append(acc.agentBreakdown,
                                        [file |-> file.name, tokens |-> tokens])]

RECURSIVE AgentsFromSimple(_, _, _)
AgentsFromSimple(acc, files, i) ==
    IF i > Len(files) THEN acc
    ELSE AgentsFromSimple(AddAgentSimple(acc, files[i]), files, i + 1)

\* the try block that reads the agents directory: dir is None when fs.readdir
\* rejects (the directory is missing), otherwise the listing
SimpleAgents(dir) ==
    IF dir = None
    THEN [customAgents |-> simpleAgentsFallback, agentBreakdown |-> <<>>]
    ELSE AgentsFromSimple([customAgents |-> 0, agentBreakdown |-> <<>>],
                          SliceFirst(dir[1], simpleAgentLimit), 1)

\* the try block that reads CLAUDE.md: claudeMd is None when the read rejects
SimpleMemory(claudeMd) ==
    IF claudeMd = None THEN simpleMemoryFallback ELSE estimateTokens(claudeMd[1])

\* formatTokens: the number below 1000, otherwise (tokens/1000).toFixed(1) + 'k',
\* kept as the count of tenths of a thousand
formatTokens(tokens) ==
    IF tokens >= 1000 THEN [k |-> TRUE, n |-> (tokens + 50) \div 100]
    ELSE [k |-> FALSE, n |-> tokens]

\* Object.entries(agentBreakdown).sort(([,a], [,b]) => b - a): descending by
\* tokens and stable
SortAgents(entries) ==
    LET n == Len(entries)
        rank == [i \in 1..n |->
                    Cardinality({j \in 1..n :
                        \/ entries[j].tokens > entries[i].tokens
                        \/ entries[j].tokens = entries[i].tokens /\ j <= i})]
        at == [r \in 1..n |-> CHOOSE i \in 1..n : rank[i] = r]
    IN  [r \in 1..n |-> entries[at[r]]]

\* The agent lines of the report: all of them in detailed mode, five in standard
\* mode, three otherwise. A line shows the file name (without its '.md') and the
\* formatted token count.
AgentLines(mode, agentBreakdown) ==
    LET sortedAgents == SortAgents(agentBreakdown)
        shown == IF mode = "detailed" THEN sortedAgents
                 ELSE IF mode = "standard"
                      THEN SliceFirst(sortedAgents, standardAgentLines)
                      ELSE SliceFirst(sortedAgents, compactAgentLines)
    IN  [i \in 1..Len(shown) |->
            [file |-> shown[i].file, tokens |-> formatTokens(shown[i].tokens)]]

\* tools.reduce(...) on each value of mcpToolsDetailed: for an enabled name that
\* is an inherited member of the table the stored .tools is undefined and the
\* reduce throws before anything is written
RenderThrows(s) ==
    /\ Parses(s) /\ ~ThrowsAfterParse(s)
    /\ \E i \in 1..Len(s.enabled) :
          s.enabled[i] \notin DOMAIN mcpServers /\ s.enabled[i] \in ObjectPrototypeKeys

\* analyze() of the simplified analyzer in a project whose .claude was found:
\* the five numbers, the total, and what reaches stdout (None when analyze()
\* rejects, which `analyze().catch(console.error)` turns into exit code 0 with
\* nothing written)
analyzeSimple(env) ==
    LET m == SimpleMcp(env.settings)
        a == SimpleAgents(env.agents)
        memoryFiles == SimpleMemory(env.claudeMd)
        total == JsAdd(JsAdd(JsAdd(JsAdd(simpleSystemPrompt, simpleSystemTools),
                                   m.total), a.customAgents), memoryFiles)
    IN  [mcpTools       |-> m.total,
         customAgents   |-> a.customAgents,
         agentBreakdown |-> a.agentBreakdown,
         memoryFiles    |-> memoryFiles,
         total          |-> total,
         stdout         |-> IF RenderThrows(env.settings) THEN None
                            ELSE Some([total |-> formatTokens(total),
                                       customAgents |-> formatTokens(a.customAgents),
                                       agentLines |-> AgentLines(env.mode, a.agentBreakdown)])]

\* --- the simplified analyzer on one project ------------------------------
\* Agents directories of n entries: n agent files of 4 i characters each; the
\* same with the first one unreadable; n - 1 other files followed by one agent.
ListingPatterns == {"agents", "unreadable", "notesFirst"}
SimpleListing(pattern, n) ==
    [i \in 1..n |->
        CASE pattern = "agents" ->
                SimpleFileOf("a" \o ToString(i) \o ".md", TRUE, Some(4 * i))
          [] pattern = "unreadable" ->
                SimpleFileOf("a" \o ToString(i) \o ".md", TRUE,
                             IF i = 1 THEN None ELSE Some(4 * i))
          [] OTHER ->
                IF i < n THEN SimpleFileOf("n" \o ToString(i) \o ".txt", FALSE, Some(4 * i))
                ELSE SimpleFileOf("a" \o ToString(i) \o ".md", TRUE, Some(4 * i))]

SimpleSettings ==
    {SettingsOf("unreadable", <<>>), SettingsOf("null", <<>>), SettingsOf("list", <<>>),
     SettingsOf("list", <<"fetch", "sequential-thinking">>),
     SettingsOf("list", <<"constructor">>)}

SimpleModes == {"compact", "standard", "detailed"}

SimpleInputs ==
    [settings : SimpleSettings,
     agents   : {None} \cup {Some(SimpleListing(p, n)) :
                                p \in ListingPatterns, n \in 0..MaxAgentFiles},
     claudeMd : {None, Some(0), Some(6)},
     mode     : SimpleModes]

InitSimple == ProgramInit /\ input \in {Some(i) : i \in SimpleInputs} /\ output = None

AnalyzeSimple ==
    /\ output = None
    /\ output' = Some(analyzeSimple(input[1]))
    /\ UNCHANGED <<Rest, input>>

SpecSimple == InitSimple /\ [][AnalyzeSimple]_vars


(***************************************************************************)
(* One project as the full analyzer finds it.                              *)
(***************************************************************************)
\* A fresh process analyses a project whose files are fixed in the initial
\* state: what the two settings reads return, whether .claude/agents exists and
\* what the read of CLAUDE.md gives (None when it rejects). Every read completes
\* before a timer fires.
InitFresh ==
    /\ ProgramInit
    /\ input \in {Some(e) : e \in
          [local     : {SettingsOf("list", <<"fetch", "sequential-thinking">>),
                        SettingsOf("list", <<"sequential-thinking", "fetch">>),
                        SettingsOf("list", <<"fetch">>),
                        SettingsOf("unreadable", <<>>)},
           global    : {SettingsOf("unreadable", <<>>),
                        SettingsOf("list", <<"fetch", "sequential-thinking">>)},
           agentsDir : BOOLEAN,
           claudeMd  : {None} \cup {Some(len) : len \in AgentLens}]}
    /\ output = None

NextFresh ==
    \/ runs < MaxFresh /\ \E d \in Projects : AnalyzeStart(d)
    \/ McpReadLocal(input[1].local)
    \/ McpReadGlobal(input[1].global)
    \/ AgAccess(input[1].agentsDir)
    \/ \E files \in ShortListings : AgReaddir(files)
    \/ \E k \in ag.pending, len \in AgentLens : AgRead(k, len)
    \/ input[1].claudeMd # None /\ MemRead(input[1].claudeMd[1])
    \/ input[1].claudeMd = None /\ MemReadFail
    \/ RaceSettled

SpecFresh == InitFresh /\ [][NextFresh]_vars


\* --- generateOptimizationRecommendations on a results object --------------
\* mcpTools and customAgents around their thresholds, and a breakdown of the
\* MCP servers that is undefined or has 0, 3, 15, 16 or 17 keys
InitRecommend ==
    /\ ProgramInit
    /\ input \in {Some([NewAnalyzer(1).results EXCEPT
                          !.mcpTools = m, !.customAgents = a, !.breakdown.mcpServers = b]) :
                     m \in {NaN, 0, 99999, 100000, 100001, 150000},
                     a \in {0, 500, 10000, 10001},
                     b \in {None} \cup
                           {Some([k \in {"s" \o ToString(i) : i \in 1..n} |-> 0]) :
                               n \in {0, 3, 15, 16, 17}}}
    /\ output = None

Recommend ==
    /\ output = None
    /\ output' = Some(generateOptimizationRecommendations(input[1]))
    /\ UNCHANGED <<Rest, input>>

SpecRecommend == InitRecommend /\ [][Recommend]_vars


(***************************************************************************)
(* ContextCommand.execute of context-cmd.js.                               *)
(***************************************************************************)
\* what findClaudeDirectory() of context-cmd.js resolves to, over the working
\* directories and the .claude entries above them
CmdDiscoveries ==
    {findClaudeDirectoryCmd(cwd, markers) :
        cwd \in Projects, markers \in [Projects -> MarkerKinds]}

\* the mode argument: `process.argv[2] || 'standard'` hands any string on
CmdModes == {"standard", "detailed", "detailed; rm -rf /"}

\* execAsync(`timeout 10s node "${globalAnalyzerPath}" ${mode}`, ...): one
\* string, run by a shell, that ends with the mode as it was passed in
CommandOf(mode) ==
    [via  |-> "exec",
     line |-> <<"timeout", "10s", "node", "~/.claude/scripts/context-analyzer-simple.js">>,
     mode |-> mode]

\* getFallbackAnalysis(): the canned text (the project name it looks up is not
\* part of it)
getFallbackAnalysis == CannedText

\* The projects the analyzer child runs in: one whose report is written, and one
\* whose settings enable an inherited member, so that the child writes nothing
\* and exits with code 0. Neither has agents, so the mode does not bear on it.
ExecEnvs ==
    {[settings |-> SettingsOf("list", l), agents |-> None, claudeMd |-> None,
      mode |-> "compact"] : l \in {<<"fetch">>, <<"constructor">>}}

\* execute(mode) up to its return or to the await of the analyzer child
ExecuteStart(mode, found) ==
    /\ cmd.pc = "idle"
    /\ LET c0 == [cmd EXCEPT !.calls = @ + 1, !.mode = mode, !.command = None,
                             !.child = "none"]
       IN  IF found = None
           THEN cmd' = [c0 EXCEPT !.currentProject = NoPath,
                                  !.message = "notFound",
                                  !.returned = Some(getFallbackAnalysis)]
           ELSE IF shouldUseCache(cmd, now, found[1].projectRoot)
           THEN cmd' = [c0 EXCEPT !.currentProject = found[1].projectRoot,
                                  !.message = "cached",
                                  !.returned = cmd.lastAnalysis]
           ELSE cmd' = [c0 EXCEPT !.currentProject = found[1].projectRoot,
                                  !.pc = "exec",
                                  !.command = Some(CommandOf(mode)),
                                  !.child = "running",
                                  !.message = "none",
                                  !.returned = None]
    /\ UNCHANGED <<now, ticks, runs, cache, origin, an, pc, startTime, mcp, ag, mem,
                   input, output>>

\* the child exits with code 0: its stdout fills the slot and is returned
ExecResolve(env) ==
    /\ cmd.pc = "exec"
    /\ LET r == analyzeSimple(env)
           stdout == IF r.stdout = None THEN EmptyText ELSE ReportText(r.stdout[1])
       IN  cmd' = [cmd EXCEPT !.lastAnalysis = Some(stdout),
                              !.lastAnalysisTime = now,
                              !.lastAnalysisProject = cmd.currentProject,
                              !.lastAnalysisMode = cmd.mode,
                              !.pc = "idle",
                              !.child = "ok",
                              !.message = IF r.stdout = None THEN "warnings" ELSE "none",
                              !.returned = Some(stdout)]
    /\ UNCHANGED <<now, ticks, runs, cache, origin, an, pc, startTime, mcp, ag, mem,
                   input, output>>

\* a variant whose catch stores the canned text in the slot
ExecRejectStores(how) ==
    /\ cmd.pc = "exec"
    /\ cmd' = [cmd EXCEPT !.lastAnalysis = Some(getFallbackAnalysis),
                          !.lastAnalysisTime = now,
                          !.lastAnalysisProject = cmd.currentProject,
                          !.lastAnalysisMode = cmd.mode,
                          !.pc = "idle",
                          !.child = how,
                          !.message = "failed",
                          !.returned = Some(getFallbackAnalysis)]
    /\ UNCHANGED <<now, ticks, runs, cache, origin, an, pc, startTime, mcp, ag, mem,
                   input, output>>

\* execAsync rejects (the child exits with another code, is killed after 10 s
\* or cannot be started): the catch returns the canned text
ExecReject(how) ==
    /\ cmd.pc = "exec"
    /\ cmd' = [cmd EXCEPT !.pc = "idle",
                          !.child = how,
                          !.message = "failed",
                          !.returned = Some(getFallbackAnalysis)]
    /\ UNCHANGED <<now, ticks, runs, cache, origin, an, pc, startTime, mcp, ag, mem,
                   input, output>>

\* the clock advances by about the cache timeout
CmdSteps == {119999, 120000, 120001}

\* execute() calls on one ContextCommand object, one after the other
NextCmd ==
    \/ cmd.calls < MaxExecutes /\
          \E mode \in CmdModes, found \in CmdDiscoveries : ExecuteStart(mode, found)
    \/ \E env \in ExecEnvs : ExecResolve(env)
    \/ \E how \in {"failed", "timeout"} : ExecReject(how)
    \/ ticks < MaxWaits /\ \E d \in CmdSteps : Tick(now + d)

SpecCmd == Init /\ [][NextCmd]_vars


(***************************************************************************)
(* lib/security.js: InputValidator.validateMode.                           *)
(***************************************************************************)
\* A JavaScript value handed to a validator is its typeof and, for a string,
\* the sequence of its characters (for an array, those of its one element). The
\* control characters, the backtick and the backslash are named NUL, LF, CR,
\* TAB, BACKTICK and BACKSLASH.
Letters ==
    {"a", "b", "c", "d", "e", "f", "g", "h", "i", "j", "k", "l", "m", "n", "o", "p", "q",
     "r", "s", "t", "u", "v", "w", "x", "y", "z", "A", "B", "C", "D", "E", "F", "G", "H",
     "I", "J", "K", "L", "M", "N", "O", "P", "Q", "R", "S", "T", "U", "V", "W", "X", "Y",
     "Z"}

\* a variant of the allowlist that also holds 'invalid'
allowedModesWide ==
    {<<"c", "o", "m", "p", "a", "c", "t">>, <<"s", "u", "m", "m", "a", "r", "y">>,
     <<"s", "t", "a", "n", "d", "a", "r", "d">>, <<"d", "e", "t", "a", "i", "l", "e", "d">>,
     <<"i", "n", "v", "a", "l", "i", "d">>}

\* const allowedModes = ['compact', 'summary', 'standard', 'detailed']
allowedModes ==
    {<<"c", "o", "m", "p", "a", "c", "t">>, <<"s", "u", "m", "m", "a", "r", "y">>,
     <<"s", "t", "a", "n", "d", "a", "r", "d">>, <<"d", "e", "t", "a", "i", "l", "e", "d">>}

\* validateMode(mode): what it throws, or the value it returns
validateMode(mode) ==
    IF mode.type # "string"
    THEN [threw |-> TRUE, message |-> "Mode must be a string", value |-> None]
    ELSE IF ~(Len(mode.chars) >= 1 /\ \A i \in 1..Len(mode.chars) : mode.chars[i] \in Letters)
    THEN [threw |-> TRUE, message |-> "Mode contains invalid characters", value |-> None]
    ELSE IF mode.chars \notin allowedModes
    THEN [threw |-> TRUE, message |-> "Invalid mode", value |-> None]
    ELSE [threw |-> FALSE, message |-> "", value |-> Some(mode)]

\* --- validateMode on one value -------------------------------------------
\* Strings: the allowed modes and other words, each alone and with one more
\* character before or after it, the empty string and single characters;
\* values of the other types, among them an array that holds an allowed mode.
InitMode ==
    LET words == allowedModes \cup {<<"i", "n", "v", "a", "l", "i", "d">>,
                                    <<"C", "O", "M", "P", "A", "C", "T">>,
                                    <<"c", "o", "m", "p", "a", "c">>}
        extras == {";", "&", "|", "BACKTICK", "$", "(", " ", "LF", "CR", "TAB", "NUL", "/", "BACKSLASH",
                   ".", "%", "-", "1", "s", "X"}
        strings == words \cup {<<>>} \cup {<<x>> : x \in extras}
                   \cup {w \o <<x>> : w \in words, x \in extras}
                   \cup {<<x>> \o w : w \in words, x \in extras}
        values == {[type |-> "string", chars |-> s] : s \in strings}
                  \cup {[type |-> t, chars |-> <<>>] :
                           t \in {"undefined", "object", "number", "boolean"}}
                  \cup {[type |-> "object", chars |-> w] : w \in allowedModes}
    IN  ProgramInit /\ input \in {Some(v) : v \in values} /\ output = None

ValidateMode ==
    /\ output = None
    /\ output' = Some(validateMode(input[1]))
    /\ UNCHANGED <<Rest, input>>

SpecMode == InitMode /\ [][ValidateMode]_vars


(***************************************************************************)
(* lib/security.js: the path checks of SafeCommandExecutor and             *)
(* SecureFileOperations.                                                   *)
(***************************************************************************)
\* A path string is the sequence of its pieces: the separator "/" and pieces of
\* names, cut so that one string is a prefix of another exactly when its
\* sequence is ('scripts-evil' is "scripts", "-evil"; 'x.js' is "x", ".js").
\* str.startsWith(prefix) and str.endsWith(piece)
startsWith(str, prefix) ==
    Len(prefix) <= Len(str) /\ SubSeq(str, 1, Len(prefix)) = prefix
endsWith(str, piece) == Len(str) >= 1 /\ str[Len(str)] = piece

\* path.resolve(p) in the working directory cwd: a relative path is appended to
\* cwd, then empty and '.' segments are dropped, a '..' segment drops the one
\* before it, and the segments are joined again without a trailing separator
resolve(cwd, p) ==
    LET full == IF p # <<>> /\ p[1] = "/" THEN p
                ELSE IF p = <<>> THEN cwd ELSE cwd \o <<"/">> \o p
        RECURSIVE Split(_, _)
        Split(i, cur) ==
            IF i > Len(full) THEN <<cur>>
            ELSE IF full[i] = "/" THEN <<cur>> \o Split(i + 1, <<>>)
            ELSE Split(i + 1, Append(cur, full[i]))
        RECURSIVE Norm(_, _, _)
        Norm(segs, i, acc) ==
            IF i > Len(segs) THEN acc
            ELSE IF segs[i] = <<>> \/ segs[i] = <<".">> THEN Norm(segs, i + 1, acc)
            ELSE IF segs[i] = <<"..">>
                 THEN Norm(segs, i + 1,
                           IF acc = <<>> THEN acc ELSE SubSeq(acc, 1, Len(acc) - 1))
            ELSE Norm(segs, i + 1, Append(acc, segs[i]))
        RECURSIVE Join(_, _)
        Join(segs, i) ==
            IF i > Len(segs) THEN <<>> ELSE <<"/">> \o segs[i] \o Join(segs, i + 1)
        kept == Norm(Split(1, <<>>), 1, <<>>)
    IN  IF kept = <<>> THEN <<"/">> ELSE Join(kept, 1)

\* SafeCommandExecutor.validateScriptPath with HOME = home
validateScriptPath(home, cwd, scriptPath) ==
    LET resolved == resolve(cwd, scriptPath)
        allowedDir == resolve(cwd, home \o <<"/", ".claude", "/", "scripts">>)
    IN  IF ~endsWith(resolved, ".js")
        THEN [threw |-> TRUE, message |-> "Only JavaScript files are allowed", value |-> None]
        ELSE IF ~startsWith(resolved, allowedDir)
        THEN [threw |-> TRUE, message |-> "Script must be in allowed directory", value |-> None]
        ELSE [threw |-> FALSE, message |-> "", value |-> Some(resolved)]

\* SecureFileOperations.validateFilePath of an object constructed, in cwd, with
\* the list allowedBasePaths
validateFilePath(allowedBasePaths, cwd, filePath) ==
    LET allowedPaths == [i \in 1..Len(allowedBasePaths) |-> resolve(cwd, allowedBasePaths[i])]
        resolved == resolve(cwd, filePath)
        isAllowed == \/ Len(allowedPaths) = 0
                     \/ \E i \in 1..Len(allowedPaths) : startsWith(resolved, allowedPaths[i])
    IN  IF ~isAllowed
        THEN [threw |-> TRUE,
              message |-> "File access denied - path not in allowed directories",
              value |-> None]
        ELSE IF \E i \in 1..Len(resolved) : resolved[i] \in {"NUL", "%00"}
        THEN [threw |-> TRUE, message |-> "Path contains null bytes", value |-> None]
        ELSE [threw |-> FALSE, message |-> "", value |-> Some(resolved)]

\* --- the two path checks on one path --------------------------------------
\* HOME is /home; the allowed base directory of the file operations is the
\* scripts directory, too. The path starts in that directory, in a sibling
\* whose name begins with its name, in /etc or nowhere (a relative path), goes
\* on through 'sub', '..' or nothing, and ends with a file name.
scriptsDir == <<"/", "home", "/", ".claude", "/", "scripts">>

InitPaths ==
    LET starts == {scriptsDir, scriptsDir \o <<"-evil">>, <<"/", "etc">>, <<>>}
        middles == {<<>>, <<"sub", "/">>, <<"sub", "/", "..", "/">>, <<"..", "/">>,
                    <<"..", "/", "..", "/", "..", "/">>, <<".", "/">>}
        files == {<<"x", ".js">>, <<"x", ".py">>, <<"passwd">>, <<"x", "%00", ".js">>}
        paths == {(IF s = <<>> THEN <<>> ELSE s \o <<"/">>) \o m \o f :
                     s \in starts, m \in middles, f \in files}
    IN  /\ ProgramInit
        /\ input \in {Some([cwd |-> c, path |-> p]) :
                         c \in {scriptsDir, <<"/", "tmp">>}, p \in paths}
        /\ output = None

ValidatePaths ==
    /\ output = None
    /\ output' = Some([file   |-> validateFilePath(<<scriptsDir>>, input[1].cwd, input[1].path),
                       script |-> validateScriptPath(<<"/", "home">>, input[1].cwd,
                                                     input[1].path)])
    /\ UNCHANGED <<Rest, input>>

SpecPaths == InitPaths /\ [][ValidatePaths]_vars


(***************************************************************************)
(* lib/security.js: SecureErrorHandler.logSecurityEvent.                   *)
(***************************************************************************)
\* The entry logSecurityEvent(event, details) writes at time t, as
\* JSON.stringify renders it: details is spread into the entry, userAgent and
\* sessionId become 'REDACTED' when they are truthy and are left out (their
\* value is undefined) otherwise. details is a function from its keys to its
\* string values.
logSecurityEvent(event, details, t) ==
    LET redacted == {"userAgent", "sessionId"}
        keys == (DOMAIN details \ redacted)
                \cup {k \in redacted \cap DOMAIN details : details[k] # ""}
    IN  [timestamp |-> t,
         event     |-> event,
         details   |-> [k \in keys |-> IF k \in redacted THEN "REDACTED" ELSE details[k]]]

\* --- two calls that differ in the values of their details ----------------
\* the same event is logged twice, with the same keys and values of the
\* caller's own choosing
InitLog ==
    LET keySets == {{}, {"userInput", "userId"}, {"attemptedPath"}, {"command"},
                    {"userAgent", "sessionId"}}
        values == {"malicious; rm -rf /", "../../../etc/passwd"}
    IN  /\ ProgramInit
        /\ input \in {Some([event |-> e, first |-> d1, second |-> d2]) :
                         e \in {"invalid_input", "path_traversal"},
                         d1 \in UNION {[ks -> values] : ks \in keySets},
                         d2 \in UNION {[ks -> values] : ks \in keySets}}
        /\ DOMAIN input[1].first = DOMAIN input[1].second
        /\ output = None

LogEvents ==
    /\ output = None
    /\ output' = Some([first  |-> logSecurityEvent(input[1].event, input[1].first, now),
                       second |-> logSecurityEvent(input[1].event, input[1].second, now + 1)])
    /\ UNCHANGED <<Rest, input>>

SpecLog == InitLog /\ [][LogEvents]_vars


(***************************************************************************)
(* analyzeCustomAgents and analyzeMemoryFiles with their timers: one       *)
(* analysis of the project right below the root, whose settings enable one *)
(* server, the listing of its agents directory drawn by Init. The clock    *)
(* advances from one armed timer to the next; a read may complete, fail,   *)
(* or never complete, and the reads that complete do so in the order in    *)
(* which they were issued.                                                 *)
(***************************************************************************)
\* six agents (two batches), and a directory that also holds a file that is no
\* agent
BatchListings ==
    {<<FileOf("a1.md", TRUE), FileOf("a2.md", TRUE), FileOf("a3.md", TRUE),
       FileOf("a4.md", TRUE), FileOf("a5.md", TRUE), FileOf("b.md", TRUE)>>,
     <<FileOf("a.md", TRUE), FileOf("notes.txt", FALSE), FileOf("b.md", TRUE)>>}
\* the length of the text an agent file holds
BatchLens == {40}

InitBatches ==
    /\ ProgramInit
    /\ input \in {Some(files) : files \in BatchListings}
    /\ output = None

NextBatches ==
    \/ runs < MaxBatchRuns /\ AnalyzeStart(Root + 1)
    \/ McpReadLocal(SettingsOf("list", <<"fetch">>))
    \/ \E exists \in BOOLEAN : AgAccess(exists)
    \/ AgReaddirFail
    \/ AgReaddir(input[1])
    \/ \E k \in ag.pending, len \in BatchLens :
          (\A j \in ag.pending : k <= j) /\ AgRead(k, len)
    \/ \E k \in ag.pending : AgReadFail(k)
    \/ \E k \in ag.pending : AgReadTimeout(k)
    \/ \E k \in ag.abandoned : AgReadLate(k)
    \/ AgDelayDone
    \/ \E len \in BatchLens : MemRead(len)
    \/ MemReadTimeout
    \/ RaceSettled
    \/ RaceTimeout
    \/ \E t \in Deadlines : Tick(t)

SpecBatches == InitBatches /\ [][NextBatches]_vars

\* two batches with one agent each, and a directory of one batch
TimerListings ==
    {<<FileOf("a.md", TRUE), FileOf("t1.txt", FALSE), FileOf("t2.txt", FALSE),
       FileOf("t3.txt", FALSE), FileOf("t4.txt", FALSE), FileOf("b.md", TRUE)>>,
     <<FileOf("a.md", TRUE), FileOf("notes.txt", FALSE), FileOf("b.md", TRUE)>>}

InitTimers ==
    /\ ProgramInit
    /\ input \in {Some(files) : files \in TimerListings}
    /\ output = None

\* The event loop runs every timer that has expired and the clock reaches every
\* armed timer; fs.access and fs.readdir complete. Nothing is assumed about
\* fs.readFile: a read may hang for ever.
SpecBatchesFair ==
    /\ InitTimers /\ [][NextBatches]_vars
    /\ WF_vars(\E t \in Deadlines : Tick(t))
    /\ WF_vars(\E exists \in BOOLEAN : AgAccess(exists))
    /\ WF_vars(AgReaddirFail \/ AgReaddir(input[1]))
    /\ WF_vars(\E k \in ag.pending : AgReadTimeout(k))
    /\ WF_vars(AgDelayDone)
    /\ WF_vars(MemReadTimeout)
    /\ WF_vars(RaceSettled)
    /\ WF_vars(RaceTimeout)

(***************************************************************************)
(* The simplified analyzer's findClaudeDirectory on deep working           *)
(* directories: the walk starts around maxIterations levels below the root *)
(* and at most one directory above it holds a .claude entry.               *)
(***************************************************************************)
DeepestStart == maxIterations + MaxCapSlack
\* no .claude entry at all, or one entry, a file or a directory, at depth m
OneMarker(m, kind) == [d \in 1..DeepestStart |-> IF d = m THEN kind ELSE "none"]
CapInputs ==
    [startPath : (maxIterations - MaxCapSlack)..DeepestStart,
     markers   : {OneMarker(m, kind) : m \in 0..DeepestStart, kind \in {"file", "dir"}}]

InitCap == ProgramInit /\ input \in {Some(i) : i \in CapInputs} /\ output = None

LocateDeep ==
    /\ output = None
    /\ output' = Some(findClaudeDirectorySimple(input[1].startPath, input[1].markers))
    /\ UNCHANGED <<Rest, input>>

SpecCap == InitCap /\ [][LocateDeep]_vars

(***************************************************************************)
(* Properties of analyze().                                                *)
(***************************************************************************)
CategoryFields == {"systemPrompt", "systemTools", "mcpTools", "customAgents", "memoryFiles"}

\* C1: once analyze() has returned its result object, total equals
\* systemPrompt + systemTools + mcpTools + customAgents + memoryFiles in every
\* later state, also after the global timeout fired and an analyzer still in
\* flight wrote its field into the returned object.
C1_TotalIsSum ==
    pc = "returned" => an.results.total = SumOfCategories(an.results)

\* C2: with the .claude directory resolved analyze() never rejects, and in the
\* result it returned the five category fields and total are non-negative
\* integers, whatever the reads did.
C2_NonNegativeIntegers ==
    /\ pc = "failed" => an.claudeDir = NoPath
    /\ pc = "returned" =>
          \A f \in CategoryFields \cup {"total"} : IsNonNegInt(an.results[f])

\* C3: a category value an analysis of project P takes from the snapshot cache
\* was stored by an analysis of P.
C3_SnapshotOrigin ==
    pc \in {"racing", "returned"} =>
        /\ mcp.fromCache => origin.mcpTools = an.projectRoot
        /\ ag.fromCache => origin.customAgents = an.projectRoot
        /\ mem.fromCache => origin.memoryFiles = an.projectRoot

\* C4: in the result analyze() returned on the global timeout, the field of
\* every analyzer that has not settled holds the fallback of its category
\* (120000, 8900, 2700), and systemPrompt and systemTools hold 8500 and 15200.
C4_TimeoutFallbacks ==
    (pc = "returned" /\ ~AllSettledNow) =>
        /\ an.results.systemPrompt = 8500
        /\ an.results.systemTools = 15200
        /\ ~Settled(mcp) => an.results.mcpTools = 120000
        /\ ~Settled(ag) => an.results.customAgents = 8900
        /\ ~Settled(mem) => an.results.memoryFiles = 2700

\* C5: a call fails exactly when no directory was given and none was found; the
\* failing call starts no analyzer, leaves the result fields as constructed and
\* the cache as cleanupCache left it; no other step makes analyze() fail, the
\* race ends by returning.
C5_NotFoundFails ==
    [][/\ runs' # runs => (pc' = "failed" <=> an'.claudeDir = NoPath)
       /\ (runs' # runs /\ pc' = "failed") =>
             /\ an'.results = NewAnalyzer(NoPath).results
             /\ cache' = cleanupCache(cache, now)
             /\ mcp' = IdleMcp /\ ag' = IdleAg /\ mem' = IdleMem
       /\ (pc' = "failed" /\ runs' = runs) => pc = "failed"
       /\ (pc = "racing" /\ pc' # pc) => pc' = "returned"]_vars

\* a second call failed in a process whose file cache an earlier analysis filled
C5_Witness ==
    pc = "failed" /\ runs = 2 /\ cache.fileCache # <<>> /\ an.results.total = 0

\* C7: at the start of a call for project P the snapshot is valid exactly when a
\* timestamp exists, the stored path is P and less than 300000 ms have passed;
\* each of the three categories is taken from the snapshot exactly when it is
\* valid and the category is stored, so a mismatch or expiry drops all three;
\* right after analyzeMcpTools stored the snapshot a query for P is a hit.
C7_SnapshotValidity ==
    [][/\ (runs' # runs /\ pc' = "racing") =>
             LET P == an'.projectRoot
                 valid == /\ cache.timestamp # NoTime
                          /\ cache.projectPath = P
                          /\ now - cache.timestamp < 300000
             IN  /\ isCacheValid(cache, now, P) <=> valid
                 /\ mcp'.fromCache <=> (valid /\ cache.mcpTools # None)
                 /\ ag'.fromCache <=> (valid /\ cache.customAgents # None)
                 /\ mem'.fromCache <=>
                       (valid /\ cache.memoryFiles # None /\ Truthy(cache.memoryFiles[1]))
       /\ (mcp.pc \in {"readLocal", "readGlobal"} /\ mcp'.pc = "done" /\ cache' # cache) =>
             /\ isCacheValid(cache', now, an.projectRoot)
             /\ cache'.timestamp = now /\ cache'.projectPath = an.projectRoot]_vars

\* all three categories come from a snapshot that is 1 ms short of the TTL
C7_Witness ==
    /\ pc = "racing" /\ mcp.fromCache /\ ag.fromCache /\ mem.fromCache
    /\ now - cache.timestamp = ttl - 1


(***************************************************************************)
(* Properties of the functions.                                            *)
(***************************************************************************)
\* the nearest directory from startPath upward, the root excluded, whose
\* .claude entry is a directory; NoPath when there is none
Nearest(startPath, markers) ==
    LET S == {d \in 1..startPath : markers[d] = "dir"}
    IN  IF S = {} THEN NoPath ELSE CHOOSE d \in S : \A e \in S : e <= d

\* C6: each of the three findClaudeDirectory variants returns the .claude path
\* of the nearest directory from the start path upward (root excluded) whose
\* .claude entry is a directory, and null exactly when there is none.
C6_NearestDirectory ==
    output # None =>
        LET n == Nearest(input[1].startPath, input[1].markers)
            o == output[1]
        IN  /\ o.full = n
            /\ o.cmd = IF n = NoPath THEN None
                       ELSE Some([claudeDir |-> n, projectRoot |-> n])
            /\ o.simple.claudeDir = n

\* C8: after cleanupCache no entry older than 600000 ms remains; when at most
\* 100 entries survive expiry all of them stay, in their order; when more than
\* 100 survive exactly 50 stay, each a survivor and none stamped earlier than a
\* survivor that was dropped, and if the survivors were inserted in order of
\* strictly growing timestamps these are the 50 inserted last.
C8_Pruning ==
    output # None =>
        LET t == input[1].now
            after == output[1]
            survivors == SelectSeq(input[1].fileCache,
                                   LAMBDA e : ~(t - e.timestamp > 600000))
            n == Len(survivors)
            kept == {after[j].path : j \in 1..Len(after)}
        IN  /\ \A j \in 1..Len(after) : ~(t - after[j].timestamp > 600000)
            /\ n <= 100 => after = survivors
            /\ n > 100 =>
                  /\ Len(after) = 50
                  /\ \A j \in 1..50 : \E k \in 1..n : survivors[k] = after[j]
                  /\ \A k \in 1..n : survivors[k].path \notin kept =>
                        \A j \in 1..50 : survivors[k].timestamp <= after[j].timestamp
                  /\ (\A k \in 1..(n - 1) :
                         survivors[k].timestamp < survivors[k + 1].timestamp)
                        => after = SubSeq(survivors, n - 49, n)

\* 102 entries of which one had expired: 101 survive and are cut to 50
C8_Witness ==
    /\ output # None
    /\ Len(input[1].fileCache) = 102
    /\ input[1].now - input[1].fileCache[1].timestamp > fileCacheTtl
    /\ input[1].now - input[1].fileCache[2].timestamp <= fileCacheTtl
    /\ input[1].fileCache[2].timestamp < input[1].fileCache[3].timestamp
    /\ Len(output[1]) = 50

\* what a name contributes by the table: the total and the tool list of its
\* key, else 2000 and the one synthetic tool
ExpectedTokens(table, server) ==
    IF server \in DOMAIN table THEN table[server].total ELSE 2000
ExpectedTools(table, server) ==
    IF server \in DOMAIN table THEN table[server].tools
    ELSE <<[name |-> "mcp__" \o server \o "__unknown", tokens |-> 2000]>>
RECURSIVE ExpectedTotal(_, _, _)
ExpectedTotal(table, list, i) ==
    IF i > Len(list) THEN 0
    ELSE ExpectedTokens(table, list[i]) + ExpectedTotal(table, list, i + 1)

\* C9: in both analyzers every enabled name that is no key of the table adds
\* 2000 to the total and gets the one tool mcp__<server>__unknown of 2000
\* tokens, and every key of the table adds its total and gets its tool list.
C9_ServerContributions ==
    output # None =>
        LET list == input[1]
            o == output[1]
        IN  /\ o.full.mcpTotal = ExpectedTotal(mcpToolsData, list, 1)
            /\ o.simple.total = ExpectedTotal(mcpServers, list, 1)
            /\ \A i \in 1..Len(list) :
                  /\ o.full.breakdown[list[i]] = ExpectedTokens(mcpToolsData, list[i])
                  /\ o.full.detailed[list[i]] = ExpectedTools(mcpToolsData, list[i])
                  /\ o.simple.mcpToolsDetailed[list[i]] = ExpectedTools(mcpServers, list[i])

\* whether a settings read yields parseable settings, and the names it enables
Parseable(s) == s.kind \notin {"unreadable", "malformed"}
Chosen(local, global) == IF Parseable(local) THEN local ELSE global

C11_MissingAgentsDirectory ==
    (output # None /\ input[1].agents = None) =>
        /\ output[1].customAgents = 0
        /\ output[1].agentBreakdown = <<>>


\* the token count of every agent file of a listing, summed from entry i on
RECURSIVE AgentTokensFrom(_, _)
AgentTokensFrom(files, i) ==
    IF i > Len(files) THEN 0
    ELSE (IF files[i].md THEN estimateTokens(files[i].read[1]) ELSE 0)
         + AgentTokensFrom(files, i + 1)

\* C20: in detailed mode the report of the simplified analyzer lists every .md
\* file of the agents directory (all of them readable) and the custom-agents
\* total is the sum of the token counts of all those files, however many
\* entries the directory holds.
C20_DetailedListsEveryAgent ==
    (/\ output # None
     /\ output[1].stdout # None
     /\ input[1].mode = "detailed"
     /\ input[1].agents # None
     /\ \A i \in 1..Len(input[1].agents[1]) : input[1].agents[1][i].read # None)
    => LET files == input[1].agents[1]
           lines == output[1].stdout[1].agentLines
       IN  /\ {lines[j].file : j \in 1..Len(lines)}
                = {files[i].name : i \in {k \in 1..Len(files) : files[k].md}}
           /\ output[1].customAgents = AgentTokensFrom(files, 1)


(***************************************************************************)
(* Properties of a fresh analysis by the full analyzer.                    *)
(***************************************************************************)
\* the project of C12: the local settings enable exactly fetch and
\* sequential-thinking, there is no agents directory and no CLAUDE.md, and the
\* first analyze() of the process has returned
FreshExample ==
    /\ pc = "returned" /\ runs = 1
    /\ input[1].local.kind = "list"
    /\ Len(input[1].local.enabled) = 2
    /\ {input[1].local.enabled[i] : i \in 1..2} = {"fetch", "sequential-thinking"}
    /\ ~input[1].agentsDir
    /\ input[1].claudeMd = None

\* C12: for that project the fresh analysis yields mcpTools = 1943,
\* customAgents = 0, memoryFiles = 2700 (the memory fallback) and
\* total = 8500 + 15200 + 1943 + 0 + 2700.
C12_FreshAnalysis ==
    FreshExample =>
        /\ an.results.systemPrompt = 8500
        /\ an.results.systemTools = 15200
        /\ an.results.mcpTools = 1943
        /\ an.results.customAgents = 0
        /\ an.results.memoryFiles = 2700
        /\ an.results.total = 8500 + 15200 + 1943 + 0 + 2700

C12_Witness == FreshExample /\ an.results.total = 28343


(***************************************************************************)
(* Properties of the recommendations.                                      *)
(***************************************************************************)
\* the number of keys of breakdown.mcpServers of a results object
ServersOf(results) ==
    IF results.breakdown.mcpServers = None THEN 0
    ELSE Cardinality(DOMAIN results.breakdown.mcpServers[1])

\* C13: the list of recommendations holds the high-impact consolidation item
\* iff mcpTools > 100000, then the high-impact agent item iff
\* customAgents > 10000, then the medium-impact loading item iff the server
\* count > 15, and nothing else; a value at its threshold triggers nothing; for
\* mcpTools = 150000, customAgents = 500 and 3 servers the list is the one
\* consolidation item.
C13_Recommendations ==
    output # None =>
        LET r == input[1]
            list == output[1].optimization
            consolidate == [impact |-> "high", title |-> "Consolidate MCP Servers"]
            optimize == [impact |-> "high", title |-> "Optimize Agent Architecture"]
            selective == [impact |-> "medium", title |-> "Selective MCP Loading"]
        IN  /\ list = (IF r.mcpTools > 100000 THEN <<consolidate>> ELSE <<>>)
                      \o (IF r.customAgents > 10000 THEN <<optimize>> ELSE <<>>)
                      \o (IF ServersOf(r) > 15 THEN <<selective>> ELSE <<>>)
            /\ (r.mcpTools <= 100000 /\ r.customAgents <= 10000 /\ ServersOf(r) <= 15)
                  => list = <<>>
            /\ (r.mcpTools = 150000 /\ r.customAgents = 500 /\ ServersOf(r) = 3)
                  => list = <<consolidate>>

C13_Witness ==
    /\ output # None
    /\ input[1].mcpTools = 150000 /\ input[1].customAgents = 500 /\ ServersOf(input[1]) = 3
    /\ Len(output[1].optimization) = 1
    /\ output[1].optimization[1].title = "Consolidate MCP Servers"


(***************************************************************************)
(* Properties of ContextCommand.execute.                                   *)
(***************************************************************************)
\* a step in which execute() has found the project and decides about the slot
Decides == cmd'.calls = cmd.calls + 1 /\ cmd'.currentProject # NoPath

\* the stored output is returned, no analyzer is started, the slot stays
ServedFromSlot ==
    /\ cmd'.pc = "idle" /\ cmd'.child = "none" /\ cmd'.command = None
    /\ cmd'.returned = cmd.lastAnalysis
    /\ cmd'.lastAnalysis = cmd.lastAnalysis
    /\ cmd'.lastAnalysisTime = cmd.lastAnalysisTime
    /\ cmd'.lastAnalysisProject = cmd.lastAnalysisProject

\* the analyzer is started
Reruns == cmd'.pc = "exec" /\ cmd'.child = "running" /\ cmd'.command # None

\* a successful analysis was stored for the project found, less than 120000 ms ago
StoredInTime ==
    /\ cmd.lastAnalysis # None
    /\ cmd.lastAnalysisProject = cmd'.currentProject
    /\ now - cmd.lastAnalysisTime < 120000

\* the output of an analysis that ended well replaces the slot
Replaces ==
    (cmd.pc = "exec" /\ cmd'.child = "ok") =>
        /\ cmd'.lastAnalysis = cmd'.returned /\ cmd'.returned # None
        /\ cmd'.lastAnalysisTime = now
        /\ cmd'.lastAnalysisProject = cmd.currentProject

C15_FallbackNotCached ==
    [][LET notFound == cmd'.calls = cmd.calls + 1 /\ cmd'.currentProject = NoPath
           childFailed == cmd.pc = "exec" /\ cmd'.child \in {"failed", "timeout"}
       IN  /\ (notFound \/ childFailed) =>
                 /\ cmd'.pc = "idle"
                 /\ cmd'.returned = Some(CannedText)
                 /\ cmd'.lastAnalysis = cmd.lastAnalysis
                 /\ cmd'.lastAnalysisTime = cmd.lastAnalysisTime
                 /\ cmd'.lastAnalysisProject = cmd.lastAnalysisProject
           /\ cmd'.lastAnalysis # Some(CannedText)
           /\ ((cmd'.calls = cmd.calls + 1 \/ cmd.pc = "exec") /\ cmd'.pc = "idle")
                 => cmd'.returned # None
           /\ cmd'.message = "cached" => cmd'.returned # Some(CannedText)]_vars

\* the analyzer child failed after an earlier analysis had filled the slot: the
\* canned report was returned and the slot still holds the earlier report
C15_Witness ==
    /\ cmd.child \in {"failed", "timeout"} /\ cmd.pc = "idle"
    /\ cmd.returned = Some(CannedText)
    /\ cmd.lastAnalysis # None /\ cmd.lastAnalysis[1].kind = "report"

\* C16: the command handed to child_process is started by the spawn-based
\* executor, never through a shell, and the mode in it is one of compact,
\* summary, standard, detailed.
C16_ValidatedSpawn ==
    cmd.command # None =>
        /\ cmd.command[1].via = "spawn"
        /\ cmd.command[1].mode \in {"compact", "summary", "standard", "detailed"}


(***************************************************************************)
(* Properties of lib/security.js.                                          *)
(***************************************************************************)
\* C17: validateMode returns its argument for exactly the four strings compact,
\* summary, standard and detailed and throws for every other value: one that is
\* no string, the empty string, and every string with a shell metacharacter,
\* white space, a control character or a path separator in it.
C17_ValidateMode ==
    output # None =>
        LET v == input[1]
            four == {<<"c", "o", "m", "p", "a", "c", "t">>,
                     <<"s", "u", "m", "m", "a", "r", "y">>,
                     <<"s", "t", "a", "n", "d", "a", "r", "d">>,
                     <<"d", "e", "t", "a", "i", "l", "e", "d">>}
        IN  IF v.type = "string" /\ v.chars \in four
            THEN ~output[1].threw /\ output[1].value = Some(v)
            ELSE output[1].threw /\ output[1].value = None

\* 'standard;' was handed in and rejected for its characters
C17_Witness ==
    /\ output # None
    /\ input[1] = [type |-> "string",
                   chars |-> <<"s", "t", "a", "n", "d", "a", "r", "d", ";">>]
    /\ output[1].threw /\ output[1].message = "Mode contains invalid characters"


\* the resolved path r is the directory base or lies below it
Inside(r, base) ==
    \/ r = base
    \/ Len(r) > Len(base) /\ SubSeq(r, 1, Len(base) + 1) = base \o <<"/">>

\* C18: validateFilePath and validateScriptPath accept a path only if its
\* resolved form lies inside the allowed base directory (for a script: a .js
\* file inside ~/.claude/scripts); a path that resolves outside it, through
\* '..' or into a sibling whose name begins with the name of the allowed
\* directory, is rejected.
C18_InsideAllowed ==
    output # None =>
        /\ ~output[1].file.threw =>
              Inside(output[1].file.value[1], <<"/", "home", "/", ".claude", "/", "scripts">>)
        /\ ~output[1].script.threw =>
              /\ Inside(output[1].script.value[1],
                        <<"/", "home", "/", ".claude", "/", "scripts">>)
              /\ output[1].script.value[1][Len(output[1].script.value[1])] = ".js"


\* C19: two calls of logSecurityEvent with the same event name that differ only
\* in the values of their details write entries that differ at most in their
\* timestamp: no value the caller supplied shows in the entry.
C19_DetailsNotLogged ==
    output # None =>
        [output[1].first EXCEPT !.timestamp = 0] = [output[1].second EXCEPT !.timestamp = 0]


(***************************************************************************)
(* Properties of the snapshot written by a returning analyze().            *)
(***************************************************************************)
\* the step in which analyze() returns its result object
Returns == pc = "racing" /\ pc' = "returned"

\* C21: every analyze() call that returns leaves the snapshot cache holding an
\* entry for the resolved project path with a fresh timestamp, also when
\* categories fell back to constants or the global timeout fired, so that an
\* analysis of the same project that follows at once is served from it.
C21_SnapshotOnReturn ==
    [][Returns => isCacheValid(cache', now', an'.projectRoot)]_vars


\* C22: in every analyze() call that returns, result.optimization is what
\* generateOptimizationRecommendations yields for the category values of that
\* same result, also when analyzers fell back to constants and when the global
\* timeout fired; a returned result with mcpTools > 100000 carries the
\* consolidate-servers recommendation.
C22_RecommendationsOnReturn ==
    [][Returns =>
          LET r == an'.results
              consolidate == [impact |-> "high", title |-> "Consolidate MCP Servers"]
          IN  /\ r.optimization =
                    Recommendations(r.mcpTools, r.customAgents, ServerCount(r))
              /\ JsGt(r.mcpTools, 100000) =>
                    \E n \in 1..Len(r.optimization) : r.optimization[n] = consolidate]_vars


(***************************************************************************)
(* Properties of the batches of analyzeCustomAgents.                       *)
(***************************************************************************)
\* the agent files whose fs.readFile has been issued and has not completed
InFlight == ag.pending \cup ag.abandoned

\* C23: during analyzeCustomAgents at most 5 agent-file reads are in flight at
\* any moment: while a read of one batch is in flight no read of an earlier
\* batch is, a read whose per-file timeout fired included.
C23_FiveInFlight ==
    /\ Cardinality(InFlight) <= 5
    /\ ag.pending # {} => \A k \in InFlight : k > ag.i


\* the listing readdir returned, and whether every .md file of it has its entry
\* in the per-file breakdown b
AccountsForAll(b) ==
    \A k \in 1..Len(input[1]) : input[1][k].md => input[1][k].name \in DOMAIN b

AgentsSettled ==
    /\ ag.pc = "done"
    /\ an.results.breakdown.agents # None
    /\ AccountsForAll(an.results.breakdown.agents[1])

\* C24: analyzeCustomAgents and analyzeMemoryFiles always terminate. When a
\* file read never completes its timer (5 s for an agent file, 3 s for
\* CLAUDE.md) rejects it and the file is counted with its fallback value; every
\* later batch is still processed, so the category settles with every .md file
\* accounted for.
C24_Terminates ==
    /\ (ag.pc \in {"batch", "delay"}) ~> AgentsSettled
    /\ (mem.pc = "read") ~> (mem.pc = "done")
    /\ [](\A k \in ag.abandoned :
             /\ ag.pc \in {"batch", "delay"} =>
                   ag.agentBreakdown[ag.agentFiles[k].name] = 1000
             /\ AgentsSettled =>
                   an.results.breakdown.agents[1][input[1][k].name] = 1000)

\* the read of a.md, in the first of two batches, and the read of CLAUDE.md
\* never completed: both timers fired, the second batch was processed and the
\* category has settled
C24_Witness ==
    /\ AgentsSettled
    /\ Len(input[1]) = 6 /\ 1 \in ag.abandoned
    /\ "b.md" \in DOMAIN an.results.breakdown.agents[1]
    /\ an.results.customAgents = 1010
    /\ mem.pc = "done" /\ an.results.memoryFiles = 2700


RECURSIVE SumOver(_, _)
SumOver(b, names) ==
    IF names = {} THEN 0
    ELSE LET n == CHOOSE x \in names : TRUE
         IN  b[n] + SumOver(b, names \ {n})
SumOfBreakdown(b) == SumOver(b, DOMAIN b)

\* the names of the .md files among the first n entries of the listing
MdNames(n) == {input[1][k].name : k \in {j \in 1..n : input[1][j].md}}

\* the per-file breakdown as a step of analyzeCustomAgents leaves it: the local
\* object while the loop runs, the one in the results once it has ended
BreakdownAfter ==
    IF ag'.pc = "done" THEN an'.results.breakdown.agents[1] ELSE ag'.agentBreakdown
TotalAfter ==
    IF ag'.pc = "done" THEN an'.results.customAgents ELSE ag'.totalTokens

\* C25: a failed or timed-out read of one agent file contributes exactly 1000
\* tokens for that file and does not abort the category: every other .md file
\* of the directory is still counted with its own estimate, files without the
\* .md extension contribute nothing, and customAgents equals the sum of the
\* per-file breakdown values.
C25_PerFileFallback ==
    /\ [](ag.pc \in {"batch", "delay"} =>
             /\ ag.totalTokens = SumOfBreakdown(ag.agentBreakdown)
             /\ DOMAIN ag.agentBreakdown \subseteq MdNames(Len(input[1])))
    /\ [](an.results.breakdown.agents # None =>
             an.results.customAgents = SumOfBreakdown(an.results.breakdown.agents[1]))
    /\ [](AgentsSettled =>
             /\ DOMAIN an.results.breakdown.agents[1] = MdNames(Len(input[1]))
             /\ \A n \in MdNames(Len(input[1])) :
                   an.results.breakdown.agents[1][n] \in {1000, estimateTokens(40)})
    /\ [][\A k \in ag.pending :
             (k \notin ag'.pending /\ cache'.fileCache = cache.fileCache) =>
                 /\ BreakdownAfter[ag.agentFiles[k].name] = 1000
                 /\ TotalAfter = ag.totalTokens + 1000
                 /\ \A n \in DOMAIN ag.agentBreakdown :
                       BreakdownAfter[n] = ag.agentBreakdown[n]]_vars

\* of the two agents of a directory that also holds notes.txt the read of a.md
\* failed and b.md was read
C25_Witness ==
    /\ AgentsSettled
    /\ Len(input[1]) = 3
    /\ ag.abandoned = {}
    /\ an.results.breakdown.agents[1] = SetKey(SetKey(EmptyObj, "a.md", 1000), "b.md", 10)
    /\ an.results.customAgents = 1010


(***************************************************************************)
(* Properties of the file cache.                                           *)
(***************************************************************************)
\* the step in which analyze() is called
Called == runs' = runs + 1

\* the entry of the file cache for a path, in a state where there is one
EntryOf(c, filePath) == c.fileCache[FileCacheIndex(c, filePath)]

\* the agents a step of analyzeCustomAgents counted without awaiting a read:
\* those a starting batch found in the file cache
CountedAtOnce ==
    IF ~(ag.pc \in {"readdir", "delay"}) \/ ag' = ag THEN {}
    ELSE IF ag'.pc = "done"
    THEN IF an'.results.breakdown.agents = None THEN {}
         ELSE DOMAIN an'.results.breakdown.agents[1] \ DOMAIN ag.agentBreakdown
    ELSE DOMAIN ag'.agentBreakdown \ DOMAIN ag.agentBreakdown

\* C26: cleanupCache runs once at the start of every analyze() call, before the
\* directory is looked for and before an analyzer reads the snapshot or the
\* file cache; no other step runs it, no timer and no step in the middle of an
\* analysis; and no analyzer uses a file-cache entry older than fileCacheTtl.
C26_CleanupAtStart ==
    /\ [][Called =>
             /\ cache'.fileCache = CutFileCache(DeleteExpired(cache.fileCache, now))
             /\ SnapshotExpired(cache, now) => cache'.timestamp = NoTime
             /\ \A i \in 1..Len(cache'.fileCache) :
                   now - cache'.fileCache[i].timestamp <= 600000]_vars
    /\ [][~Called =>
             /\ \A i \in 1..Len(cache.fileCache) :
                   FileCacheIndex(cache', cache.fileCache[i].path) # 0
             /\ cache.timestamp # NoTime => cache'.timestamp # NoTime
             /\ cache.mcpTools # None => cache'.mcpTools # None
             /\ cache.customAgents # None => cache'.customAgents # None
             /\ cache.memoryFiles # None => cache'.memoryFiles # None]_vars
    /\ [][\A n \in CountedAtOnce :
             LET filePath == <<an.claudeDir, "agents/" \o n>>
             IN  /\ FileCacheIndex(cache, filePath) # 0
                 /\ now - EntryOf(cache, filePath).timestamp <= 600000]_vars
    /\ [][(Called /\ mem'.pc = "done" /\ ~mem'.fromCache) =>
             /\ FileCacheIndex(cache', ClaudeMdPath(an')) # 0
             /\ now - EntryOf(cache', ClaudeMdPath(an')).timestamp <= 600000]_vars

\* a second call, 599999 ms after CLAUDE.md was read, with the snapshot gone:
\* the entry of the file cache has survived cleanupCache and is used
C26_Witness ==
    /\ runs = 2 /\ pc = "racing" /\ now = startTime
    /\ mem.pc = "done" /\ ~mem.fromCache
    /\ FileCacheIndex(cache, ClaudeMdPath(an)) # 0
    /\ now - EntryOf(cache, ClaudeMdPath(an)).timestamp = 599999
    /\ an.results.memoryFiles = EntryOf(cache, ClaudeMdPath(an)).tokens


(***************************************************************************)
(* Properties of the capped walk of the simplified analyzer.               *)
(***************************************************************************)
\* the directories the walk probes before the cap: the first maxIterations
\* ones from the working directory upwards, the root excluded
Probed(startPath) == {d \in 1..startPath : startPath - d < 50}
MarkerProbed == \E d \in Probed(input[1].startPath) : input[1].markers[d] # "none"
\* the cap stopped the walk: 50 hops found nothing and did not reach the root
CutOffByCap == ~MarkerProbed /\ input[1].startPath - 50 > Root

\* C27: the simplified analyzer's findClaudeDirectory makes at most 50 upward
\* hops; it returns not-found when the cap stops the search; and it logs
\* max_iterations_exceeded exactly when the cap cut the search off, not when
\* the walk ended at the filesystem root or found the marker.
C27_CapAndEvent ==
    output # None =>
        /\ output[1].iterations <= 50
        /\ CutOffByCap => output[1].claudeDir = NoPath
        /\ output[1].logged <=> CutOffByCap


\* the entries a step creates or refreshes
NewEntries ==
    {cache'.fileCache[i] : i \in 1..Len(cache'.fileCache)}
        \ {cache.fileCache[i] : i \in 1..Len(cache.fileCache)}

\* the step is the successful read of the file of entry e: the awaited read of
\* CLAUDE.md or of an agent file of the batch resolves, and e holds its count
ReadStored(e) ==
    \/ /\ mem.pc = "read" /\ mem'.pc = "done"
       /\ e.path = ClaudeMdPath(an)
       /\ an'.results.memoryFiles = e.tokens
    \/ \E k \in ag.pending \ ag'.pending :
          /\ e.path = AgentPath(an, ag.agentFiles[k])
          /\ BreakdownAfter[ag.agentFiles[k].name] = e.tokens

\* a lookup of filePath in cache c at time t finds an entry younger than
\* fileCacheTtl
Fresh(c, t, filePath) ==
    /\ FileCacheIndex(c, filePath) # 0
    /\ t - EntryOf(c, filePath).timestamp < 600000

\* C28: file-cache entries are created or refreshed only by a successful read
\* of that file; a read that fails or times out leaves the file cache as it
\* is; and a lookup within fileCacheTtl of the entry's timestamp yields the
\* stored count and starts no read of the file.
C28_FileCacheFrame ==
    /\ [][\A e \in NewEntries : e.timestamp = now /\ ReadStored(e)]_vars
    /\ [][(mem.pc = "read" /\ mem'.pc = "done" /\ an'.results.memoryFiles = 2700)
             => cache'.fileCache = cache.fileCache]_vars
    /\ [][\A k \in ag.pending \ ag'.pending :
             BreakdownAfter[ag.agentFiles[k].name] = 1000
                 => cache'.fileCache = cache.fileCache]_vars
    /\ [][(Called /\ pc' = "racing" /\ ~mem'.fromCache
                  /\ Fresh(cache', now, ClaudeMdPath(an'))) =>
             /\ mem'.pc = "done"
             /\ an'.results.memoryFiles = EntryOf(cache', ClaudeMdPath(an')).tokens]_vars
    /\ [][/\ \A n \in CountedAtOnce :
                BreakdownAfter[n] = EntryOf(cache, <<an.claudeDir, "agents/" \o n>>).tokens
          /\ ag'.pc = "batch" =>
                \A k \in ag'.pending \ ag.pending :
                    ~Fresh(cache, now, AgentPath(an, ag'.agentFiles[k]))]_vars

\* a second call after the snapshot has expired: a.md is counted from the entry
\* the first call stored, and no read of it was started
C28_Witness ==
    /\ runs = 2 /\ pc = "racing"
    /\ ag.pc = "delay" /\ ag.pending = {} /\ ag.abandoned = {}
    /\ "a.md" \in DOMAIN ag.agentBreakdown
    /\ Fresh(cache, now, <<an.claudeDir, "agents/a.md">>)
    /\ EntryOf(cache, <<an.claudeDir, "agents/a.md">>).timestamp < startTime
    /\ ag.agentBreakdown["a.md"] = EntryOf(cache, <<an.claudeDir, "agents/a.md">>).tokens


\* C29: the report execute(mode) returns was produced for the requested mode:
\* over any sequence of execute calls on one ContextCommand object a cached
\* report generated for one display mode is never returned to a call that
\* requests another.
C29_ReportOfRequestedMode ==
    [][(cmd'.calls = cmd.calls + 1 /\ cmd'.message = "cached")
          => cmd.lastAnalysisMode = cmd'.mode]_vars


(***************************************************************************)
(* Properties of the per-server breakdown.                                 *)
(***************************************************************************)
\* C30: after a successful analyzeMcpTools mcpTools equals the sum of the
\* per-server values in breakdown.mcpServers, and the server count of the
\* recommendation step equals the number of enabled server names, for every
\* list of enabled names, lists that name a server more than once included.
\* (Checked on the lists that name no inherited member of Object.)
C30_BreakdownSum ==
    (output # None /\ \A i \in 1..Len(input[1]) : input[1][i] \notin ObjectPrototypeKeys) =>
        LET o == output[1].full
        IN  /\ o.mcpTotal = SumOfBreakdown(o.breakdown)
            /\ Cardinality(DOMAIN o.breakdown) = Len(input[1])

====
